---- MODULE Spec2Model ----
(***************************************************************************)
(* Verification model of the inventory-sync reconciliation engine:         *)
(*   utils/helpers.py, core/inventory_matcher.py,                          *)
(*   core/inventory_updater.py, core/shopify_client.py, core/logger.py     *)
(*   and the orchestrator main.py (sync_inventory).                        *)
(*                                                                         *)
(* Strings are sequences of one-character strings, so that normalisation   *)
(* (strip, upper, separator removal) is computed and not assumed.          *)
(* Python's None is the one-element sequence None below, which is not a    *)
(* string over the alphabet.  Python floats are IEEE binary64 values kept  *)
(* as a 53-bit significand (three 18-bit limbs) and an exponent.           *)
(***************************************************************************)
EXTENDS Integers, Sequences, FiniteSets, TLC

VARIABLES
    shopify_variants,   \* InventoryMatcher.shopify_variants: ordered dict, a sequence of <<key, variant>>
    ean_lookup,         \* InventoryMatcher.ean_lookup: ordered dict identifier -> list of variants
    sku_lookup,         \* InventoryMatcher.sku_lookup
    catalog,            \* the platform's product list as served by the products endpoint
    updater,            \* InventoryUpdater: the three safety settings it was built with
    mcall,              \* the last match_product call: its arguments and its result
    ccall,              \* the last should_flag_update call: its arguments and its result
    pc,                 \* where sync_inventory stands
    args,               \* the arguments of sync_inventory
    suppliers_config,   \* the suppliers of the configuration file
    safety_limits,      \* the safety limits of the configuration file
    locations,          \* the platform's locations as served by the locations endpoint
    enabled_suppliers,  \* the list the loop of sync_inventory runs over
    idx,                \* the position of the loop in enabled_suppliers
    logger,             \* SyncLogger.log_data
    saved,              \* whether logger.save() has written the log file
    exit_code,          \* the status of sys.exit, a list that is empty while the run lasts
    writes,             \* the requests made to the inventory_levels/set endpoint
    supplier,           \* the supplier instance of the pass
    batch,              \* batch_update_inventory: its updates, position and results
    passes,             \* one record per supplier pass begun
    faults,             \* how many requests and supplier calls have failed
    client              \* ShopifyClient._make_request: its locals, the clock, what was sent

ovars == <<pc, args, suppliers_config, safety_limits, locations, enabled_suppliers, idx,
           logger, saved, exit_code, writes, supplier, batch, passes, faults, client>>

vars == <<shopify_variants, ean_lookup, sku_lookup, catalog, updater, mcall, ccall, ovars>>

-----------------------------------------------------------------------------
(* Python values *)

None == <<"<None>">>

Truthy(s) == s # None /\ s # <<>>

NoVariant == [none |-> TRUE]

NoCall == [op |-> "none"]

-----------------------------------------------------------------------------
(* Ordered dictionaries (Python dict keeps insertion order; assigning to an
   existing key replaces the value in place) *)

DictKeys(d) == { d[i][1] : i \in 1..Len(d) }

DictHas(d, k) == \E i \in 1..Len(d) : d[i][1] = k

DictGet(d, k) == d[CHOOSE i \in 1..Len(d) : d[i][1] = k][2]

DictSet(d, k, v) ==
    IF DictHas(d, k)
    THEN [i \in 1..Len(d) |-> IF d[i][1] = k THEN <<k, v>> ELSE d[i]]
    ELSE Append(d, <<k, v>>)

-----------------------------------------------------------------------------
(* utils/helpers.py: identifier normalisation *)

Digits == {"0", "1", "2", "3", "4", "5", "6", "7", "8", "9"}

\* the whitespace str.strip() and the pattern \s take away
IsSpace(c) == c \in {" ", "\t", "\n"}

IsSeparator(c) == IsSpace(c) \/ c = "-" \/ c = "_"

upper(c) == CASE c = "a" -> "A" [] c = "b" -> "B" [] c = "s" -> "S" [] OTHER -> c

RECURSIVE lstrip(_)
lstrip(s) == IF s # <<>> /\ IsSpace(Head(s)) THEN lstrip(Tail(s)) ELSE s

RECURSIVE rstrip(_)
rstrip(s) ==
    IF s # <<>> /\ IsSpace(s[Len(s)]) THEN rstrip(SubSeq(s, 1, Len(s) - 1)) ELSE s

strip(s) == rstrip(lstrip(s))

RemoveSeparators(s) == SelectSeq(s, LAMBDA c : ~IsSeparator(c))

\* a validation that accepts every non-empty string
isdigit_nonempty(s) == s # <<>>

isdigit(s) == s # <<>> /\ \A i \in 1..Len(s) : s[i] \in Digits

normalize_ean(ean) ==
    IF ~Truthy(ean) THEN None
    ELSE LET normalized == RemoveSeparators(strip(ean))
         IN  IF isdigit(normalized) /\ 8 <= Len(normalized) /\ Len(normalized) <= 14
             THEN normalized
             ELSE None

normalize_sku(sku) ==
    IF ~Truthy(sku) THEN None
    ELSE LET normalized == [i \in 1..Len(strip(sku)) |-> upper(strip(sku)[i])]
         IN  IF normalized # <<>> THEN normalized ELSE None

-----------------------------------------------------------------------------
(* Python float arithmetic (IEEE 754 binary64, round to nearest, ties to even).
   A positive float is [m |-> <<m1, m2, m3>>, e |-> e]: the 53-bit significand
   M = m1 * Limb^2 + m2 * Limb + m3 with 2^52 <= M < 2^53, in three 18-bit
   limbs, and the value M * 2^e.  0.0 is FZero. *)

Limb == 2^18

Half == 2^17

FZero == [m |-> <<0, 0, 0>>, e |-> 0]

RECURSIVE ShiftUp(_, _)
\* least k with a * 2^k >= b
ShiftUp(a, b) == IF a >= b THEN 0 ELSE 1 + ShiftUp(2 * a, b)

RECURSIVE BitLen(_)
BitLen(n) == IF n = 0 THEN 0 ELSE 1 + BitLen(n \div 2)

\* the significand plus one
Inc3(m) ==
    IF m[3] + 1 < Limb THEN <<m[1], m[2], m[3] + 1>>
    ELSE IF m[2] + 1 < Limb THEN <<m[1], m[2] + 1, 0>>
    ELSE <<m[1] + 1, 0, 0>>

\* the float nearest to an exact value whose 53 leading bits are m, given
\* its next bit (rnd) and whether any later bit is set (sticky)
FRound(m, e, rnd, sticky) ==
    LET up == rnd = 1 /\ (sticky \/ m[3] % 2 = 1)
        i  == Inc3(m)
    IN  IF ~up THEN [m |-> m, e |-> e]
        ELSE IF i[1] = Half THEN [m |-> <<Half \div 2, 0, 0>>, e |-> e + 1]
        ELSE [m |-> i, e |-> e]

\* Python's a / b for integers 0 < a <= b (true division, correctly rounded):
\* 54 quotient bits by long division in base Limb, then rounding
FDiv(a, b) ==
    LET k  == ShiftUp(a, b)
        t1 == a * (2^k) * Half
        n1 == t1 \div b
        t2 == (t1 % b) * Limb
        n2 == t2 \div b
        t3 == (t2 % b) * Limb
        n3 == t3 \div b
        m  == << n1 \div 2,
                 (n1 % 2) * Half + n2 \div 2,
                 (n2 % 2) * Half + n3 \div 2 >>
    IN  FRound(m, 0 - k - 52, n3 % 2, t3 % b # 0)

\* Python's x * c for a float x > 0 and an integer c > 1 with c < Limb \div 2
FMulInt(x, c) ==
    LET t3  == x.m[3] * c
        t2  == x.m[2] * c + t3 \div Limb
        t1  == x.m[1] * c + t2 \div Limb
        p0  == t1 \div Limb
        p1  == t1 % Limb
        p2  == t2 % Limb
        p3  == t3 % Limb
        d   == BitLen(p0) + 1
        lo  == 2^d
        hi  == 2^(18 - d)
        m   == << p0 * hi + p1 \div lo,
                  (p1 % lo) * hi + p2 \div lo,
                  (p2 % lo) * hi + p3 \div lo >>
        low == p3 % lo
    IN  IF x.m[1] = 0 THEN FZero
        ELSE FRound(m, x.e + d, low \div (2^(d - 1)), low % (2^(d - 1)) # 0)

\* int(x) for a float 0 <= x < 2^17
FFloor(x) ==
    LET s == 0 - x.e - 36
    IN  IF x.m[1] = 0 \/ s >= 17 THEN 0 ELSE x.m[1] \div (2^s)

\* x >= n for a float x >= 0 and an integer n
FGeInt(x, n) == IF n <= 0 THEN TRUE ELSE FFloor(x) >= n

calculate_quantity_drop_percent(old_qty, new_qty) ==
    IF old_qty <= 0 THEN FZero
    ELSE IF new_qty >= old_qty THEN FZero
    ELSE FMulInt(FDiv(old_qty - new_qty, old_qty), 100)

-----------------------------------------------------------------------------
(* core/inventory_updater.py: the safety-check policy *)

NoFlag == [kind |-> "none"]

\* should_flag_update without the test of inventory_updater.py 44-45
should_flag_update_no_zero_rule(u, old_qty, new_qty) ==
    IF ~u.enable_safety_checks THEN NoFlag
    ELSE IF new_qty = 0 THEN NoFlag
    ELSE LET drop_percent == calculate_quantity_drop_percent(old_qty, new_qty)
         IN  IF FGeInt(drop_percent, u.max_quantity_drop_percent)
             THEN [kind |-> "quantity_drop", percent |-> FFloor(drop_percent),
                   was |-> old_qty, now |-> new_qty]
             ELSE NoFlag

\* the flag reason for a change, NoFlag for Python's None (the update is safe)
should_flag_update(u, old_qty, new_qty) ==
    IF ~u.enable_safety_checks THEN NoFlag
    ELSE IF old_qty >= u.min_quantity_for_zero_check /\ new_qty = 0
         THEN [kind |-> "high_quantity_to_zero", percent |-> 0,
               was |-> old_qty, now |-> 0]
    ELSE IF new_qty = 0 THEN NoFlag
    ELSE LET drop_percent == calculate_quantity_drop_percent(old_qty, new_qty)
         IN  IF FGeInt(drop_percent, u.max_quantity_drop_percent)
             THEN [kind |-> "quantity_drop", percent |-> FFloor(drop_percent),
                   was |-> old_qty, now |-> new_qty]
             ELSE NoFlag

InventoryUpdater(limits) ==
    [max_quantity_drop_percent   |-> limits.max_quantity_drop_percent,
     min_quantity_for_zero_check |-> limits.min_quantity_for_zero_check,
     enable_safety_checks        |-> limits.enable_safety_checks]

-----------------------------------------------------------------------------
(* core/shopify_client.py: the variant listing that feeds the matcher *)

EanKey(id) == [t |-> "EAN", id |-> id]

SkuKey(id) == [t |-> "SKU", id |-> id]

\* int conversion with a default; the helper is imported from utils.helpers,
\* which does not define it.  Quantities and ids are integers here.
safe_int(value, default) == value

\* the client-side tag filter: a product passes when one of the requested
\* tags is among its own (both are lists of stripped tags; None: no filter)
FilterByTags(products, tags) ==
    IF ~Truthy(tags) THEN products
    ELSE SelectSeq(products, LAMBDA p :
            p.tags # <<>> /\ \E i \in 1..Len(tags) : \E j \in 1..Len(p.tags) :
                tags[i] = p.tags[j])

VariantData(product, variant, primary_location_id) ==
    [product_id         |-> product.id,
     variant_id         |-> variant.id,
     inventory_item_id  |-> variant.inventory_item_id,
     location_id        |-> primary_location_id,
     sku                |-> variant.sku,
     barcode            |-> variant.barcode,
     inventory_quantity |-> safe_int(variant.inventory_quantity, 0)]

RECURSIVE FlattenVariants(_, _)
FlattenVariants(products, primary_location_id) ==
    IF products = <<>> THEN <<>>
    ELSE LET p == Head(products)
         IN  [i \in 1..Len(p.variants) |->
                  VariantData(p, p.variants[i], primary_location_id)]
             \o FlattenVariants(Tail(products), primary_location_id)

\* variant_map[key] = variant_data: a later variant replaces an earlier one
MapVariant(variant_map, vd) ==
    LET m1 == IF Truthy(vd.barcode)
              THEN DictSet(variant_map, EanKey(vd.barcode), vd) ELSE variant_map
    IN  IF Truthy(vd.sku) THEN DictSet(m1, SkuKey(vd.sku), vd) ELSE m1

RECURSIVE MapVariants(_, _)
MapVariants(variant_map, vds) ==
    IF vds = <<>> THEN variant_map
    ELSE MapVariants(MapVariant(variant_map, Head(vds)), Tail(vds))

\* get_product_variants_with_inventory, given the product list and the
\* primary location the two requests returned
get_product_variants_with_inventory(all_products, tags, primary_location_id) ==
    MapVariants(<<>>, FlattenVariants(FilterByTags(all_products, tags),
                                      primary_location_id))

-----------------------------------------------------------------------------
(* core/inventory_matcher.py *)

NoError == [text |-> "<None>"]

RECURSIVE BuildLookup(_, _, _)
\* __init__: the lookup of one key type, a list of variants per identifier
BuildLookup(variants, t, lookup) ==
    IF variants = <<>> THEN lookup
    ELSE LET key     == Head(variants)[1]
             variant == Head(variants)[2]
             old     == IF DictHas(lookup, key.id) THEN DictGet(lookup, key.id) ELSE <<>>
         IN  BuildLookup(Tail(variants), t,
                 IF key.t = t THEN DictSet(lookup, key.id, Append(old, variant))
                 ELSE lookup)

LookupLen(lookup, id) == IF DictHas(lookup, id) THEN Len(DictGet(lookup, id)) ELSE 0

MatchResult(variant, match_type, error) ==
    [variant |-> variant, match_type |-> match_type, error |-> error]

\* match_product with the two stages in the other order
match_product_sku_first(sv, el, sl, ean, sku) ==
    LET normalized_ean == normalize_ean(ean)
        normalized_sku == normalize_sku(sku)
    IN  IF normalized_sku # None /\ DictHas(sv, SkuKey(normalized_sku))
        THEN IF LookupLen(sl, normalized_sku) > 1
             THEN MatchResult(NoVariant, "duplicate",
                      [text |-> "Multiple products found with SKU", id |-> normalized_sku])
             ELSE MatchResult(DictGet(sv, SkuKey(normalized_sku)), "sku", NoError)
        ELSE IF normalized_ean # None /\ DictHas(sv, EanKey(normalized_ean))
        THEN IF LookupLen(el, normalized_ean) > 1
             THEN MatchResult(NoVariant, "duplicate",
                      [text |-> "Multiple products found with EAN", id |-> normalized_ean])
             ELSE MatchResult(DictGet(sv, EanKey(normalized_ean)), "ean", NoError)
        ELSE MatchResult(NoVariant, "not_found",
                 [text |-> "No match found for", ean |-> normalized_ean, sku |-> normalized_sku])

\* match_product going on to the SKU when the EAN has several variants
match_product_resolving_duplicates(sv, el, sl, ean, sku) ==
    LET normalized_ean == normalize_ean(ean)
        normalized_sku == normalize_sku(sku)
    IN  IF normalized_ean # None /\ DictHas(sv, EanKey(normalized_ean))
           /\ LookupLen(el, normalized_ean) <= 1
        THEN MatchResult(DictGet(sv, EanKey(normalized_ean)), "ean", NoError)
        ELSE IF normalized_sku # None /\ DictHas(sv, SkuKey(normalized_sku))
        THEN IF LookupLen(sl, normalized_sku) > 1
             THEN MatchResult(NoVariant, "duplicate",
                      [text |-> "Multiple products found with SKU", id |-> normalized_sku])
             ELSE MatchResult(DictGet(sv, SkuKey(normalized_sku)), "sku", NoError)
        ELSE MatchResult(NoVariant, "not_found",
                 [text |-> "No match found for", ean |-> normalized_ean, sku |-> normalized_sku])

\* match_product without its SKU stage
match_product_without_fallback(sv, el, sl, ean, sku) ==
    LET normalized_ean == normalize_ean(ean)
        normalized_sku == normalize_sku(sku)
    IN  IF normalized_ean # None /\ DictHas(sv, EanKey(normalized_ean))
        THEN IF LookupLen(el, normalized_ean) > 1
             THEN MatchResult(NoVariant, "duplicate",
                      [text |-> "Multiple products found with EAN", id |-> normalized_ean])
             ELSE MatchResult(DictGet(sv, EanKey(normalized_ean)), "ean", NoError)
        ELSE MatchResult(NoVariant, "not_found",
                 [text |-> "No match found for", ean |-> normalized_ean, sku |-> normalized_sku])

\* match_product on a matcher with the fields sv (shopify_variants),
\* el (ean_lookup) and sl (sku_lookup)
match_product(sv, el, sl, ean, sku) ==
    LET normalized_ean == normalize_ean(ean)
        normalized_sku == normalize_sku(sku)
    IN  IF normalized_ean # None /\ DictHas(sv, EanKey(normalized_ean))
        THEN IF LookupLen(el, normalized_ean) > 1
             THEN MatchResult(NoVariant, "duplicate",
                      [text |-> "Multiple products found with EAN", id |-> normalized_ean])
             ELSE MatchResult(DictGet(sv, EanKey(normalized_ean)), "ean", NoError)
        ELSE IF normalized_sku # None /\ DictHas(sv, SkuKey(normalized_sku))
        THEN IF LookupLen(sl, normalized_sku) > 1
             THEN MatchResult(NoVariant, "duplicate",
                      [text |-> "Multiple products found with SKU", id |-> normalized_sku])
             ELSE MatchResult(DictGet(sv, SkuKey(normalized_sku)), "sku", NoError)
        ELSE MatchResult(NoVariant, "not_found",
                 [text |-> "No match found for", ean |-> normalized_ean, sku |-> normalized_sku])

\* get_duplicate_identifiers: EAN duplicates first, then SKU duplicates
DuplicatesOf(lookup, t) ==
    LET dups == SelectSeq(lookup, LAMBDA kv : Len(kv[2]) > 1)
    IN  [i \in 1..Len(dups) |->
            [identifier |-> dups[i][1], type |-> t, count |-> Len(dups[i][2])]]

get_duplicate_identifiers(el, sl) == DuplicatesOf(el, "EAN") \o DuplicatesOf(sl, "SKU")

\* a batch that files the duplicates with the records not found
match_products_batch_merging(sv, el, sl, supplier_products) ==
    LET r(product) == match_product(sv, el, sl, product.ean, product.sku)
        hits   == SelectSeq(supplier_products,
                      LAMBDA p : r(p).match_type \notin {"duplicate", "not_found"})
        misses == SelectSeq(supplier_products,
                      LAMBDA p : r(p).match_type \in {"duplicate", "not_found"})
    IN  [matched    |-> [i \in 1..Len(hits) |->
                            [supplier_product |-> hits[i],
                             shopify_variant |-> r(hits[i]).variant,
                             match_type |-> r(hits[i]).match_type]],
         not_found  |-> [i \in 1..Len(misses) |->
                            [supplier_product |-> misses[i], error |-> r(misses[i]).error]],
         duplicates |-> <<>>]

RECURSIVE match_products_batch(_, _, _, _)
\* match_products_batch: the records partitioned by the outcome of match_product
match_products_batch(sv, el, sl, supplier_products) ==
    IF supplier_products = <<>>
    THEN [matched |-> <<>>, not_found |-> <<>>, duplicates |-> <<>>]
    ELSE LET product == Head(supplier_products)
             r       == match_product(sv, el, sl, product.ean, product.sku)
             rest    == match_products_batch(sv, el, sl, Tail(supplier_products))
         IN  IF r.match_type = "duplicate"
             THEN [rest EXCEPT !.duplicates =
                      <<[supplier_product |-> product, error |-> r.error]>> \o @]
             ELSE IF r.match_type = "not_found"
             THEN [rest EXCEPT !.not_found =
                      <<[supplier_product |-> product, error |-> r.error]>> \o @]
             ELSE [rest EXCEPT !.matched =
                      <<[supplier_product |-> product, shopify_variant |-> r.variant,
                         match_type |-> r.match_type]>> \o @]

-----------------------------------------------------------------------------
(* core/inventory_updater.py: batch classification *)

UpdateData(match, supplier_name) ==
    [inventory_item_id |-> match.shopify_variant.inventory_item_id,
     old_quantity      |-> match.shopify_variant.inventory_quantity,
     new_quantity      |-> match.supplier_product.quantity,
     ean               |-> match.supplier_product.ean,
     sku               |-> match.supplier_product.sku,
     supplier          |-> supplier_name,
     product_id        |-> match.shopify_variant.product_id,
     variant_id        |-> match.shopify_variant.variant_id,
     flag_reason       |-> NoFlag]

\* a process_updates without the test of lines 118-121: every pair goes to
\* should_flag_update
process_updates_unchecked(u, matched_products, supplier_name) ==
    LET all  == [i \in 1..Len(matched_products) |->
                    UpdateData(matched_products[i], supplier_name)]
        f(d) == should_flag_update(u, d.old_quantity, d.new_quantity)
        fl   == SelectSeq(all, LAMBDA d : f(d) # NoFlag)
    IN  [safe_updates    |-> SelectSeq(all, LAMBDA d : f(d) = NoFlag),
         flagged_updates |-> [i \in 1..Len(fl) |-> [fl[i] EXCEPT !.flag_reason = f(fl[i])]],
         no_change       |-> <<>>]

RECURSIVE process_updates(_, _, _)
process_updates(u, matched_products, supplier_name) ==
    IF matched_products = <<>>
    THEN [safe_updates |-> <<>>, flagged_updates |-> <<>>, no_change |-> <<>>]
    ELSE LET update_data == UpdateData(Head(matched_products), supplier_name)
             rest        == process_updates(u, Tail(matched_products), supplier_name)
             flag_reason == should_flag_update(u, update_data.old_quantity,
                                               update_data.new_quantity)
         IN  IF update_data.old_quantity = update_data.new_quantity
             THEN [rest EXCEPT !.no_change = <<update_data>> \o @]
             ELSE IF flag_reason # NoFlag
             THEN [rest EXCEPT !.flagged_updates =
                      <<[update_data EXCEPT !.flag_reason = flag_reason]>> \o @]
             ELSE [rest EXCEPT !.safe_updates = <<update_data>> \o @]

RECURSIVE should_flag_update_calls(_)
\* the pairs (old_qty, new_qty) process_updates hands to should_flag_update,
\* in order: the continue of line 121 comes before the call of line 124
should_flag_update_calls(matched_products) ==
    IF matched_products = <<>> THEN <<>>
    ELSE LET old_qty == Head(matched_products).shopify_variant.inventory_quantity
             new_qty == Head(matched_products).supplier_product.quantity
             rest    == should_flag_update_calls(Tail(matched_products))
         IN  IF old_qty = new_qty THEN rest ELSE <<<<old_qty, new_qty>>>> \o rest

\* get_summary: the counts of the three lists (the two tallies of increases
\* and decreases among the safe updates included)
get_summary(safe_updates, flagged_updates, no_change) ==
    [total_matched      |-> Len(safe_updates) + Len(flagged_updates) + Len(no_change),
     safe_updates       |-> Len(safe_updates),
     flagged_updates    |-> Len(flagged_updates),
     no_change          |-> Len(no_change),
     quantity_increases |->
         Len(SelectSeq(safe_updates, LAMBDA d : d.new_quantity > d.old_quantity)),
     quantity_decreases |->
         Len(SelectSeq(safe_updates, LAMBDA d : d.new_quantity < d.old_quantity))]

\* the updates of the safe and of the flagged entries alike
prepare_shopify_updates_all(update_results) ==
    LET all == update_results.safe_updates \o update_results.flagged_updates
    IN  [i \in 1..Len(all) |->
            [inventory_item_id |-> all[i].inventory_item_id,
             quantity          |-> all[i].new_quantity,
             sku               |-> all[i].sku,
             ean               |-> all[i].ean]]

\* prepare_shopify_updates(update_results["safe_updates"])
prepare_shopify_updates(update_results) ==
    [i \in 1..Len(update_results.safe_updates) |->
        [inventory_item_id |-> update_results.safe_updates[i].inventory_item_id,
         quantity          |-> update_results.safe_updates[i].new_quantity,
         sku               |-> update_results.safe_updates[i].sku,
         ean               |-> update_results.safe_updates[i].ean]]

-----------------------------------------------------------------------------
(* core/logger.py: the run log *)

SyncLogger ==
    [suppliers_processed |-> <<>>,
     summary |-> [total_supplier_products |-> 0, matched_products |-> 0,
                  updated_in_shopify |-> 0, no_change |-> 0,
                  not_found_in_shopify |-> 0, duplicate_identifiers |-> 0,
                  flagged_for_review |-> 0, errors |-> 0],
     updates |-> <<>>, no_changes |-> <<>>, not_found |-> <<>>,
     duplicates |-> <<>>, flagged |-> <<>>, errors |-> <<>>]

log_supplier_start(lg, supplier_name) ==
    [lg EXCEPT !.suppliers_processed = Append(@, supplier_name)]

log_update(lg, u) ==
    LET update_entry == [ean |-> u.ean, sku |-> u.sku, supplier |-> u.supplier,
                         old_qty |-> u.old_quantity, new_qty |-> u.new_quantity,
                         change |-> u.new_quantity - u.old_quantity,
                         shopify_product_id |-> u.product_id,
                         shopify_variant_id |-> u.variant_id]
    IN  IF u.old_quantity = u.new_quantity
        THEN [lg EXCEPT !.no_changes = Append(@, update_entry),
                        !.summary.no_change = @ + 1]
        ELSE [lg EXCEPT !.updates = Append(@, update_entry),
                        !.summary.updated_in_shopify = @ + 1]

log_not_found(lg, ean, sku, supplier_name) ==
    [lg EXCEPT !.not_found = Append(@, [ean |-> ean, sku |-> sku, supplier |-> supplier_name]),
               !.summary.not_found_in_shopify = @ + 1]

log_duplicate(lg, dup) ==
    [lg EXCEPT !.duplicates = Append(@, dup),
               !.summary.duplicate_identifiers = @ + 1]

\* a log_flagged that appends the entry and leaves the counter as it is
log_flagged_uncounted(lg, u) ==
    [lg EXCEPT !.flagged = Append(@, [ean |-> u.ean, sku |-> u.sku,
                                      reason |-> u.flag_reason,
                                      old_qty |-> u.old_quantity,
                                      new_qty |-> u.new_quantity,
                                      supplier |-> u.supplier])]

log_flagged(lg, u) ==
    [lg EXCEPT !.flagged = Append(@, [ean |-> u.ean, sku |-> u.sku,
                                      reason |-> u.flag_reason,
                                      old_qty |-> u.old_quantity,
                                      new_qty |-> u.new_quantity,
                                      supplier |-> u.supplier]),
               !.summary.flagged_for_review = @ + 1]

log_error(lg, error_type, message, context) ==
    [lg EXCEPT !.errors = Append(@, [type |-> error_type, message |-> message,
                                     context |-> context]),
               !.summary.errors = @ + 1]

increment_supplier_products(lg, count) ==
    [lg EXCEPT !.summary.total_supplier_products = @ + count]

\* an increment that counts one for the batch, whatever its size
increment_matched_products_by_one(lg, count) ==
    [lg EXCEPT !.summary.matched_products = @ + 1]

increment_matched_products(lg, count) ==
    [lg EXCEPT !.summary.matched_products = @ + count]

\* an exit test that takes the warnings for errors
has_errors_or_warnings(lg) ==
    \/ lg.summary.errors > 0
    \/ lg.summary.not_found_in_shopify > 0
    \/ lg.summary.flagged_for_review > 0
    \/ lg.summary.duplicate_identifiers > 0

has_errors(lg) == lg.summary.errors > 0

-----------------------------------------------------------------------------
(* Inputs: identifiers as the platform and the suppliers may carry them *)

E1 == <<"1", "2", "3", "4", "5", "6", "7", "8">>

E1Dashed == <<"1", "2", "3", "4", "-", "5", "6", "7", "8">>

E2 == <<"8", "7", "6", "5", "4", "3", "2", "1">>

EShort == <<"1", "2", "3", "4", "5", "6", "7">>

S1 == <<"A", "1">>

S1Lower == <<"a", "1">>

S1Spaced == <<" ", "A", "1", " ">>

S2 == <<"B", "2">>

PlatformVariant(id, barcode, sku, qty) ==
    [id |-> id, inventory_item_id |-> 100 * id, barcode |-> barcode, sku |-> sku,
     inventory_quantity |-> qty]

PlatformProduct(id, tags, variants) == [id |-> id, tags |-> tags, variants |-> variants]

NoLocation == 0

DefaultMaxQuantityDropPercent == 80

DefaultMinQuantityForZeroCheck == 50

DefaultLimits ==
    [max_quantity_drop_percent   |-> DefaultMaxQuantityDropPercent,
     min_quantity_for_zero_check |-> DefaultMinQuantityForZeroCheck,
     enable_safety_checks        |-> TRUE]

-----------------------------------------------------------------------------
(* core/shopify_client.py: the platform as the client sees it *)

PageLimit == 1

\* get_all_products: pages of PageLimit products are appended until a page
\* is empty or a request fails; failed_page = 0 when no request fails.  A
\* failed request ends the loop and what was fetched so far is returned.
get_all_products(products, failed_page) ==
    IF failed_page = 0 THEN products
    ELSE SubSeq(products, 1, (failed_page - 1) * PageLimit)

PageCount(products) == (Len(products) + PageLimit - 1) \div PageLimit

\* get_primary_location_id over the answer of the locations endpoint
get_primary_location_id(locs) ==
    IF locs = <<>> THEN NoLocation
    ELSE IF \E i \in 1..Len(locs) : locs[i].active /\ locs[i].legacy
    THEN locs[CHOOSE i \in 1..Len(locs) :
                 /\ locs[i].active /\ locs[i].legacy
                 /\ \A j \in 1..(i - 1) : ~(locs[j].active /\ locs[j].legacy)].id
    ELSE IF \E i \in 1..Len(locs) : locs[i].active
    THEN locs[CHOOSE i \in 1..Len(locs) :
                 /\ locs[i].active
                 /\ \A j \in 1..(i - 1) : ~locs[j].active].id
    ELSE locs[1].id

\* the inventory_levels/set endpoint: the item's available quantity is set
SetAvailable(products, inventory_item_id, available) ==
    [i \in 1..Len(products) |->
        [products[i] EXCEPT !.variants =
            [j \in 1..Len(products[i].variants) |->
                IF products[i].variants[j].inventory_item_id = inventory_item_id
                THEN [products[i].variants[j] EXCEPT !.inventory_quantity = available]
                ELSE products[i].variants[j]]]]

-----------------------------------------------------------------------------
(* suppliers/: what a supplier pass asks for and what it is answered *)

SearchByEan == {"order_nordic", "response_nordic"}

SearchBySku == {"petcare"}

KnownSuppliers == {"oase_outdoors"} \cup SearchByEan \cup SearchBySku

Take(s, n) == SubSeq(s, 1, IF n < Len(s) THEN n ELSE Len(s))

\* main.py: the barcodes of the variants stored under an EAN key, narrowed
\* by --test-eans or else by --limit
EanList(sv, test_eans, test_limit) ==
    LET entries  == SelectSeq(sv, LAMBDA kv : kv[1].t = "EAN" /\ Truthy(kv[2].barcode))
        ean_list == [i \in 1..Len(entries) |-> entries[i][2].barcode]
    IN  IF test_eans # <<>>
        THEN SelectSeq(ean_list, LAMBDA ean : \E i \in 1..Len(test_eans) : test_eans[i] = ean)
        ELSE IF test_limit # 0 THEN Take(ean_list, test_limit)
        ELSE ean_list

RECURSIVE SkuEanPairsFrom(_, _)
SkuEanPairsFrom(sv, seen_skus) ==
    IF sv = <<>> THEN <<>>
    ELSE LET variant == Head(sv)[2]
         IN  IF Truthy(variant.sku) /\ variant.sku \notin seen_skus
             THEN <<[sku |-> variant.sku, ean |-> variant.barcode]>>
                  \o SkuEanPairsFrom(Tail(sv), seen_skus \cup {variant.sku})
             ELSE SkuEanPairsFrom(Tail(sv), seen_skus)

\* main.py: one (sku, barcode) pair per distinct SKU of the listing
SkuEanPairs(sv, test_limit) ==
    LET sku_ean_pairs == SkuEanPairsFrom(sv, {})
    IN  IF test_limit # 0 THEN Take(sku_ean_pairs, test_limit) ELSE sku_ean_pairs

\* BaseSupplier.validate_product_data
validate_product_data(product) ==
    /\ Truthy(product.ean) \/ Truthy(product.sku)
    /\ "quantity" \in DOMAIN product

NotOnSupplier == [found |-> FALSE]

\* search_products_by_ean_list: the products of the searches that found a
\* page, each under the EAN it was searched by
EanSearchProducts(ean_list, answers) ==
    LET all == [i \in 1..Len(ean_list) |->
                   IF answers[i].found
                   THEN [found |-> TRUE, ean |-> ean_list[i], sku |-> answers[i].sku,
                         quantity |-> answers[i].quantity]
                   ELSE NotOnSupplier]
        hit == SelectSeq(all, LAMBDA p : p.found /\ validate_product_data(p))
    IN  [i \in 1..Len(hit) |->
            [ean |-> hit[i].ean, sku |-> hit[i].sku, quantity |-> hit[i].quantity]]

\* search_products_by_sku_list with _scrape_product_page: the EAN is the
\* expected one when there is one, else what the page shows; the SKU is the
\* page's, or the expected one when the page shows none
SkuSearchProducts(sku_ean_pairs, answers) ==
    LET all == [i \in 1..Len(sku_ean_pairs) |->
                   IF answers[i].found
                   THEN [found |-> TRUE,
                         ean |-> IF Truthy(sku_ean_pairs[i].ean)
                                 THEN sku_ean_pairs[i].ean ELSE answers[i].ean,
                         sku |-> IF answers[i].sku = None
                                 THEN sku_ean_pairs[i].sku ELSE answers[i].sku,
                         quantity |-> answers[i].quantity]
                   ELSE NotOnSupplier]
        hit == SelectSeq(all, LAMBDA p : p.found /\ validate_product_data(p))
    IN  [i \in 1..Len(hit) |->
            [ean |-> hit[i].ean, sku |-> hit[i].sku, quantity |-> hit[i].quantity]]

\* found_eans = {p.get("ean") for p in supplier_products if p.get("ean")}
FoundEans(supplier_products) ==
    {supplier_products[i].ean : i \in {j \in 1..Len(supplier_products) :
                                          Truthy(supplier_products[j].ean)}}

Range(s) == {s[i] : i \in 1..Len(s)}

\* the orders in which a Python set may be iterated
Orders(S) ==
    {s \in [1..Cardinality(S) -> S] : \A i, j \in 1..Cardinality(S) : i # j => s[i] # s[j]}

\* main.py 210-222: a zero-quantity record for every searched EAN that is
\* not among the found ones, in the order the set is iterated
SynthesizedByEan(order, supplier_name) ==
    [i \in 1..Len(order) |->
        [ean |-> order[i], quantity |-> 0, sku |-> None,
         status |-> "not_found_on_supplier"]]

\* main.py 257-271: the same for the (sku, ean) pairs, in the order of the pairs
SynthesizedBySku(sku_ean_pairs, not_found_eans) ==
    LET missing == SelectSeq(sku_ean_pairs, LAMBDA pr : pr.ean \in not_found_eans)
    IN  [i \in 1..Len(missing) |->
            [ean |-> missing[i].ean, sku |-> missing[i].sku, quantity |-> 0,
             status |-> "not_found_on_supplier"]]

\* a pass that never aborts
AbortGuardOff(found_count, searched_count) == FALSE

\* main.py 228-229 and 277-278: nothing was found although something was searched
AbortGuard(found_count, searched_count) == found_count = 0 /\ searched_count > 0

-----------------------------------------------------------------------------
(* core/shopify_client.py: the request routine.  Time is counted in ticks of
   half the minimum interval between requests.  The client keeps
   last_request_time; the model keeps how long ago that was (since_mark) and
   how long ago the last HTTP request was sent (since_sent), both up to the
   minimum interval, from which on the code no longer tells them apart. *)

requests_per_second == 2

max_retries == 10

retry_delay == 2

max_rate_limit_attempts == 20

TicksPerSecond == 2 * requests_per_second

\* min_interval = 1.0 / self.requests_per_second, in ticks
MinInterval == TicksPerSecond \div requests_per_second

Min(a, b) == IF a <= b THEN a ELSE b

NoRequest == [method |-> "<None>"]

NoResult == [none |-> TRUE]

\* ShopifyClient() before any request: last_request_time = 0, the epoch
IdleClient ==
    [pc |-> "idle", request |-> NoRequest, sent |-> NoRequest,
     attempt |-> 0, rate_limit_attempt |-> 0,
     requests |-> 0, consumed |-> 0, exhausted |-> FALSE, only_failures |-> TRUE,
     sleeps |-> <<>>, since_sent |-> MinInterval, since_mark |-> MinInterval,
     gap |-> MinInterval, result |-> NoResult]

\* n ticks go by
Tick(c, n) ==
    [c EXCEPT !.since_sent = Min(MinInterval, @ + n),
              !.since_mark = Min(MinInterval, @ + n)]

\* time.sleep(seconds)
sleep(c, seconds) == Tick(c, seconds * TicksPerSecond)

\* _wait_for_rate_limit
wait_for_rate_limit(c) ==
    LET min_interval == MinInterval
        time_since_last_request == c.since_mark
        c1 == IF time_since_last_request < min_interval
              THEN Tick(c, min_interval - time_since_last_request)
              ELSE c
    IN  [c1 EXCEPT !.since_mark = 0]

\* requests.request(method, url, headers, json, params, timeout): the request
\* goes out and its answer, or the failure to get one, comes d ticks later
send(c, d) ==
    Tick([c EXCEPT !.gap = c.since_sent, !.since_sent = 0,
                   !.sent = c.request, !.requests = @ + 1], d)

\* a wait of retry_delay whatever the attempt
backoff_constant(attempt) == retry_delay

\* wait_time = self.retry_delay * (2 ** attempt)
backoff(attempt) == retry_delay * 2^attempt

\* the except clause of the attempt: every attempt but the last is followed
\* by a wait and the next attempt; the last one raises to the caller
except_RequestException(c) ==
    IF c.attempt < max_retries - 1
    THEN LET wait_time == backoff(c.attempt)
         IN  [sleep(c, wait_time) EXCEPT !.sleeps = Append(@, wait_time),
                                         !.attempt = @ + 1, !.pc = "attempt"]
    ELSE [c EXCEPT !.pc = "raised"]

\* the Retry-After header as an integer, retry_delay without it
RetryAfter(response) ==
    safe_int(IF "Retry-After" \in DOMAIN response.headers
             THEN response.headers["Retry-After"]
             ELSE retry_delay, retry_delay)

\* a rate-limit response handled as a failure of the attempt
rate_limited_consuming(c, response) ==
    except_RequestException(sleep(c, RetryAfter(response)))

\* a rate-limit loop without a ceiling: the wait, then the same request again
rate_limited_unbounded(c, response) == sleep(c, RetryAfter(response))

\* status 429: the wait the server asks for, then the same request again in
\* the same attempt; when the last turn of the rate-limit loop is answered
\* 429 as well, the else clause of the loop raises inside the try block
rate_limited(c, response) ==
    LET c1 == sleep(c, RetryAfter(response))
    IN  IF c.rate_limit_attempt < max_rate_limit_attempts - 1
        THEN [c1 EXCEPT !.rate_limit_attempt = @ + 1]
        ELSE except_RequestException([c1 EXCEPT !.exhausted = TRUE,
                                                !.consumed = @ + 1])

\* response.raise_for_status()
raises_for_status(response) == response.status >= 400

\* response.json() if response.content else {}
Decoded(response) == IF response.content THEN [json |-> "body"] ELSE [json |-> "{}"]

-----------------------------------------------------------------------------
(* main.py: the values of a run that has not got there yet *)

NoSupplier == [name |-> "<None>"]

NoBatch == [updates |-> <<>>]

NoUpdater == [built |-> FALSE]

NoMatchResults == [matched |-> <<>>, not_found |-> <<>>, duplicates |-> <<>>]

NoUpdateResults == [safe_updates |-> <<>>, flagged_updates |-> <<>>, no_change |-> <<>>]

NoContext == [none |-> TRUE]

NewResults == [successful |-> 0, failed |-> 0, skipped |-> 0, errors |-> <<>>]

\* no run of sync_inventory is under way
NoRun ==
    /\ pc = "idle"
    /\ args = [supplier_filter |-> "<None>", dry_run |-> FALSE, force |-> FALSE,
               test_limit |-> 0, test_eans |-> <<>>]
    /\ suppliers_config = <<>>
    /\ safety_limits = DefaultLimits
    /\ locations = <<>>
    /\ enabled_suppliers = <<>>
    /\ idx = 0
    /\ logger = SyncLogger
    /\ saved = FALSE
    /\ exit_code = <<>>
    /\ writes = <<>>
    /\ supplier = NoSupplier
    /\ batch = NoBatch
    /\ passes = <<>>
    /\ faults = 0

-----------------------------------------------------------------------------
(* The matcher on its own: a catalog is listed, the matcher is built from the
   listing, and records are matched one at a time *)

CatBarcodes == {None, E1, E1Dashed, E2}

CatSkus == {None, S1, S1Lower, S2}

RecEans == {None, E1, E1Dashed, E2, EShort}

RecSkus == {None, S1, S1Lower, S1Spaced, S2}

MaxInjected == 1

MatchCatalogs ==
    { << PlatformProduct(1, <<>>, <<PlatformVariant(1, b1, s1, 10)>>),
         PlatformProduct(2, <<>>, <<PlatformVariant(2, b2, s2, 5)>>) >> :
        b1 \in CatBarcodes, s1 \in CatSkus, b2 \in CatBarcodes, s2 \in CatSkus }

RECURSIVE ExtraEntries(_)
\* how many variants the lookup lists hold beyond the first of each
ExtraEntries(lookup) ==
    IF lookup = <<>> THEN 0
    ELSE (Len(Head(lookup)[2]) - 1) + ExtraEntries(Tail(lookup))

InitMatch ==
    /\ catalog \in MatchCatalogs
    /\ shopify_variants = get_product_variants_with_inventory(catalog, None, 1)
    /\ ean_lookup = BuildLookup(shopify_variants, "EAN", <<>>)
    /\ sku_lookup = BuildLookup(shopify_variants, "SKU", <<>>)
    /\ updater = InventoryUpdater(DefaultLimits)
    /\ mcall = NoCall
    /\ ccall = NoCall
    /\ client = IdleClient
    /\ NoRun

\* matcher.match_product(ean, sku)
MatchProduct ==
    \E ean \in RecEans, sku \in RecSkus :
        /\ mcall' = [op |-> "match_product", ean |-> ean, sku |-> sku,
                     result |-> match_product(shopify_variants, ean_lookup,
                                              sku_lookup, ean, sku)]
        /\ UNCHANGED <<shopify_variants, ean_lookup, sku_lookup, catalog, updater, ccall, ovars>>

DuplicateVariant(t, id) ==
    [product_id |-> 3, variant_id |-> 30, inventory_item_id |-> 300,
     location_id |-> 1,
     sku |-> IF t = "SKU" THEN id ELSE None,
     barcode |-> IF t = "EAN" THEN id ELSE None,
     inventory_quantity |-> 8]

\* a second variant appended to the list of an identifier already in a
\* lookup, before any record is matched (the duplicates fixture of the tests)
AppendDuplicateToLookup ==
    /\ mcall = NoCall
    /\ ExtraEntries(ean_lookup) + ExtraEntries(sku_lookup) < MaxInjected
    /\ \/ \E i \in 1..Len(ean_lookup) :
             /\ ean_lookup' = [ean_lookup EXCEPT ![i] =
                    <<@[1], Append(@[2], DuplicateVariant("EAN", @[1]))>>]
             /\ UNCHANGED sku_lookup
       \/ \E i \in 1..Len(sku_lookup) :
             /\ sku_lookup' = [sku_lookup EXCEPT ![i] =
                    <<@[1], Append(@[2], DuplicateVariant("SKU", @[1]))>>]
             /\ UNCHANGED ean_lookup
    /\ UNCHANGED <<shopify_variants, catalog, updater, mcall, ccall, ovars>>

NextMatch == MatchProduct \/ AppendDuplicateToLookup

SpecMatch == InitMatch /\ [][NextMatch]_vars

-----------------------------------------------------------------------------
(* match_products_batch over lists of supplier records *)

MaxBatch == 3

BatchRecords ==
    { [ean |-> E1, sku |-> None, quantity |-> 1],
      [ean |-> None, sku |-> S1Spaced, quantity |-> 2],
      [ean |-> EShort, sku |-> S2, quantity |-> 3] }

\* matcher.match_products_batch(supplier_products)
MatchProductsBatch ==
    /\ mcall = NoCall
    /\ \E n \in 0..MaxBatch : \E supplier_products \in [1..n -> BatchRecords] :
          mcall' = [op |-> "match_products_batch",
                    supplier_products |-> supplier_products,
                    result |-> match_products_batch(shopify_variants, ean_lookup,
                                                    sku_lookup, supplier_products)]
    /\ UNCHANGED <<shopify_variants, ean_lookup, sku_lookup, catalog, updater, ccall, ovars>>

TakeMatchResults ==
    /\ mcall.op = "match_products_batch"
    /\ mcall' = NoCall
    /\ UNCHANGED <<shopify_variants, ean_lookup, sku_lookup, catalog, updater, ccall, ovars>>

NextMatchBatch ==
    \/ MatchProductsBatch
    \/ TakeMatchResults
    \/ AppendDuplicateToLookup

SpecMatchBatch == InitMatch /\ [][NextMatchBatch]_vars

-----------------------------------------------------------------------------
(* The safety decision on its own *)

MaxQty == 50

MaxDropChoices == {0, 58, DefaultMaxQuantityDropPercent}

MinZeroChoices == {2, DefaultMinQuantityForZeroCheck}

InitClassify ==
    /\ catalog = <<>>
    /\ shopify_variants = <<>>
    /\ ean_lookup = <<>>
    /\ sku_lookup = <<>>
    /\ \E mx \in MaxDropChoices, mn \in MinZeroChoices, en \in BOOLEAN :
          updater = InventoryUpdater([max_quantity_drop_percent   |-> mx,
                                      min_quantity_for_zero_check |-> mn,
                                      enable_safety_checks        |-> en])
    /\ mcall = NoCall
    /\ ccall = NoCall
    /\ client = IdleClient
    /\ NoRun

\* updater.should_flag_update(old_qty, new_qty), called when the result of
\* the call before it has been taken
ShouldFlagUpdate ==
    /\ ccall = NoCall
    /\ \E old_qty \in 0..MaxQty, new_qty \in 0..MaxQty :
        /\ ccall' = [op |-> "should_flag_update", old_qty |-> old_qty,
                     new_qty |-> new_qty,
                     result |-> should_flag_update(updater, old_qty, new_qty)]
        /\ UNCHANGED <<shopify_variants, ean_lookup, sku_lookup, catalog, updater, mcall, ovars>>

\* inventory_updater.py 125-133: the caller takes the flag reason and goes on
TakeFlagReason ==
    /\ ccall.op = "should_flag_update"
    /\ ccall' = NoCall
    /\ UNCHANGED <<shopify_variants, ean_lookup, sku_lookup, catalog, updater, mcall, ovars>>

NextClassify ==
    \/ ShouldFlagUpdate
    \/ TakeFlagReason

SpecClassify == InitClassify /\ [][NextClassify]_vars

-----------------------------------------------------------------------------
(* normalize_ean applied to raw identifiers, and applied again to its result *)

MaxEanLen == 15

DigitChars == <<"0", "1", "2", "3", "4", "5", "6", "7", "8", "9">>

\* the digits 1 2 3 ... of a barcode of n digits
DigitRun(n) == [i \in 1..n |-> DigitChars[(i % 10) + 1]]

Insert(s, p, t) == SubSeq(s, 1, p) \o t \o SubSeq(s, p + 1, Len(s))

Inserted == {<<>>, <<" ">>, <<"-">>, <<"_">>, <<"\t">>, <<"a">>, <<"-", "x">>, <<".">>}

Padding == {<<>>, <<" ">>, <<"\n">>}

RawEans ==
    {None, <<>>} \cup
    UNION { { l \o Insert(DigitRun(n), p, t) \o r :
                p \in {0, n \div 2, n}, t \in Inserted, l \in Padding, r \in Padding } :
            n \in 0..MaxEanLen }

InitNormalize ==
    /\ catalog = <<>>
    /\ shopify_variants = <<>>
    /\ ean_lookup = <<>>
    /\ sku_lookup = <<>>
    /\ updater = InventoryUpdater(DefaultLimits)
    /\ mcall = NoCall
    /\ ccall = NoCall
    /\ client = IdleClient
    /\ NoRun

nvars == <<shopify_variants, ean_lookup, sku_lookup, catalog, updater, mcall, client, ovars>>

\* normalize_ean(ean)
NormalizeEan ==
    /\ ccall = NoCall
    /\ \E ean \in RawEans :
          ccall' = [op |-> "normalize_ean", ean |-> ean, result |-> normalize_ean(ean)]
    /\ UNCHANGED nvars

\* normalize_ean(normalize_ean(ean))
NormalizeEanAgain ==
    /\ ccall.op = "normalize_ean"
    /\ ccall' = [op |-> "normalize_ean_again", ean |-> ccall.ean, result |-> ccall.result,
                 again |-> normalize_ean(ccall.result)]
    /\ UNCHANGED nvars

TakeNormalized ==
    /\ ccall.op = "normalize_ean_again"
    /\ ccall' = NoCall
    /\ UNCHANGED nvars

NextNormalize ==
    \/ NormalizeEan
    \/ NormalizeEanAgain
    \/ TakeNormalized

SpecNormalize == InitNormalize /\ [][NextNormalize]_vars

-----------------------------------------------------------------------------
(* process_updates over lists of matched pairs *)

MaxMatched == 3

PairQtys == {0, 4, 60}

MatchedPairs ==
    { [supplier_product |-> [ean |-> E1, sku |-> None, quantity |-> new_qty],
       shopify_variant  |-> VariantData(PlatformProduct(1, <<>>, <<>>),
                                        PlatformVariant(1, E1, S1, old_qty), 1),
       match_type       |-> "ean"] : old_qty \in PairQtys, new_qty \in PairQtys }

\* updater.process_updates(matched, supplier_name)
ProcessUpdates ==
    /\ ccall = NoCall
    /\ \E n \in 0..MaxMatched : \E matched_products \in [1..n -> MatchedPairs] :
          ccall' = [op |-> "process_updates", matched_products |-> matched_products,
                    result |-> process_updates(updater, matched_products, "acme"),
                    calls |-> should_flag_update_calls(matched_products)]
    /\ UNCHANGED <<shopify_variants, ean_lookup, sku_lookup, catalog, updater, mcall, ovars>>

\* updater.get_summary(safe_updates, flagged_updates, no_change)
GetSummary ==
    /\ ccall.op = "process_updates"
    /\ ccall' = [op |-> "get_summary", matched_products |-> ccall.matched_products,
                 result |-> ccall.result, calls |-> ccall.calls,
                 summary |-> get_summary(ccall.result.safe_updates,
                                         ccall.result.flagged_updates,
                                         ccall.result.no_change)]
    /\ UNCHANGED <<shopify_variants, ean_lookup, sku_lookup, catalog, updater, mcall, ovars>>

TakeSummary ==
    /\ ccall.op = "get_summary"
    /\ ccall' = NoCall
    /\ UNCHANGED <<shopify_variants, ean_lookup, sku_lookup, catalog, updater, mcall, ovars>>

NextProcess ==
    \/ ProcessUpdates
    \/ GetSummary
    \/ TakeSummary

SpecProcess == InitClassify /\ [][NextProcess]_vars

-----------------------------------------------------------------------------
(* The run log on its own: the logging operations in any order *)

MaxLogged == 6

\* how much has been logged: the entries of the lists and the two tallies
LogSize(lg) ==
    Len(lg.updates) + Len(lg.no_changes) + Len(lg.not_found) + Len(lg.duplicates)
    + Len(lg.flagged) + Len(lg.errors) + Len(lg.suppliers_processed)
    + lg.summary.total_supplier_products + lg.summary.matched_products

LoggedUpdate(old_qty, new_qty) ==
    [ean |-> E1, sku |-> None, supplier |-> "acme", old_quantity |-> old_qty,
     new_quantity |-> new_qty, product_id |-> 1, variant_id |-> 1,
     flag_reason |-> <<"r">>]

InitLogger ==
    /\ catalog = <<>>
    /\ shopify_variants = <<>>
    /\ ean_lookup = <<>>
    /\ sku_lookup = <<>>
    /\ updater = InventoryUpdater(DefaultLimits)
    /\ mcall = NoCall
    /\ ccall = NoCall
    /\ client = IdleClient
    /\ NoRun

\* what the logging operations leave alone
lvars == <<shopify_variants, ean_lookup, sku_lookup, catalog, updater, mcall, ccall,
           pc, args, suppliers_config, safety_limits, locations, enabled_suppliers, idx,
           saved, exit_code, writes, supplier, batch, passes, faults, client>>

LogSupplierStart ==
    /\ LogSize(logger) < MaxLogged
    /\ logger' = log_supplier_start(logger, "acme")
    /\ UNCHANGED lvars

LogUpdate ==
    /\ LogSize(logger) < MaxLogged
    /\ \E new_qty \in {4, 60} : logger' = log_update(logger, LoggedUpdate(60, new_qty))
    /\ UNCHANGED lvars

LogNotFoundInShopify ==
    /\ LogSize(logger) < MaxLogged
    /\ logger' = log_not_found(logger, E2, None, "acme")
    /\ UNCHANGED lvars

LogDuplicate ==
    /\ LogSize(logger) < MaxLogged
    /\ logger' = log_duplicate(logger, [identifier |-> E1, type |-> "EAN", count |-> 2])
    /\ UNCHANGED lvars

LogFlagged ==
    /\ LogSize(logger) < MaxLogged
    /\ logger' = log_flagged(logger, LoggedUpdate(60, 0))
    /\ UNCHANGED lvars

LogError ==
    /\ LogSize(logger) < MaxLogged
    /\ \E context \in {NoContext, [supplier |-> "acme"]} :
          logger' = log_error(logger, "supplier_processing", "failed", context)
    /\ UNCHANGED lvars

IncrementSupplierProducts ==
    /\ LogSize(logger) < MaxLogged
    /\ logger' = increment_supplier_products(logger, 1)
    /\ UNCHANGED lvars

IncrementMatchedProducts ==
    /\ LogSize(logger) < MaxLogged
    /\ logger' = increment_matched_products(logger, 1)
    /\ UNCHANGED lvars

NextLogger ==
    \/ LogSupplierStart
    \/ LogUpdate
    \/ LogNotFoundInShopify
    \/ LogDuplicate
    \/ LogFlagged
    \/ LogError
    \/ IncrementSupplierProducts
    \/ IncrementMatchedProducts

SpecLogger == InitLogger /\ [][NextLogger]_vars

-----------------------------------------------------------------------------
(* The orchestrator: configurations, catalogs and supplier answers *)

MaxFaults == 2

MaxFetched == 2

SupplierConfig(name, shopify_tag, enabled) ==
    [name |-> name, shopify_tag |-> shopify_tag, enabled |-> enabled]

NordicTag == <<"supplier:nordic">>

CatalogTagged ==
    << PlatformProduct(1, NordicTag, <<PlatformVariant(1, E1, S1, 60)>>),
       PlatformProduct(2, NordicTag, <<PlatformVariant(2, E2, S2, 4)>>) >>

CatalogRaw ==
    << PlatformProduct(1, <<>>, <<PlatformVariant(1, E1Dashed, S1Lower, 60),
                                  PlatformVariant(2, E1Dashed, None, 4)>>) >>

CatalogNoBarcode ==
    << PlatformProduct(1, <<>>, <<PlatformVariant(1, None, S1, 60),
                                  PlatformVariant(2, E2, S2, 4)>>) >>

OneLocation == <<[id |-> 1, active |-> TRUE, legacy |-> TRUE]>>

\* the active legacy location is the third, after an active one
ThreeLocations ==
    <<[id |-> 1, active |-> FALSE, legacy |-> TRUE],
      [id |-> 2, active |-> TRUE, legacy |-> FALSE],
      [id |-> 3, active |-> TRUE, legacy |-> TRUE]>>

\* no active legacy location: the first active one is the second
ActiveLocations ==
    <<[id |-> 1, active |-> FALSE, legacy |-> TRUE],
      [id |-> 2, active |-> TRUE, legacy |-> FALSE],
      [id |-> 3, active |-> TRUE, legacy |-> FALSE]>>

\* no active location at all
InactiveLocations ==
    <<[id |-> 2, active |-> FALSE, legacy |-> FALSE],
      [id |-> 1, active |-> FALSE, legacy |-> TRUE]>>

Scenario(suppliers, products, locs, supplier_filter, test_limit, test_eans) ==
    [suppliers |-> suppliers, catalog |-> products, locations |-> locs,
     supplier_filter |-> supplier_filter, test_limit |-> test_limit,
     test_eans |-> test_eans]

Scenarios ==
    { Scenario(<<SupplierConfig("order_nordic", NordicTag, TRUE)>>,
               CatalogTagged, OneLocation, "<None>", 0, <<>>),
      Scenario(<<SupplierConfig("petcare", None, TRUE)>>,
               CatalogNoBarcode, ThreeLocations, "<None>", 0, <<>>),
      Scenario(<<SupplierConfig("response_nordic", NordicTag, TRUE),
                 SupplierConfig("oase_outdoors", None, FALSE),
                 SupplierConfig("petcare", None, TRUE)>>,
               CatalogTagged, OneLocation, "<None>", 0, <<>>),
      Scenario(<<SupplierConfig("acme", None, TRUE),
                 SupplierConfig("order_nordic", NordicTag, TRUE)>>,
               CatalogTagged, OneLocation, "<None>", 1, <<>>),
      Scenario(<<SupplierConfig("oase_outdoors", None, TRUE),
                 SupplierConfig("order_nordic", NordicTag, TRUE)>>,
               CatalogTagged, OneLocation, "<None>", 0, <<E2>>),
      Scenario(<<SupplierConfig("order_nordic", None, TRUE)>>,
               CatalogRaw, ActiveLocations, "<None>", 0, <<>>),
      Scenario(<<SupplierConfig("oase_outdoors", NordicTag, TRUE),
                 SupplierConfig("petcare", None, TRUE)>>,
               CatalogTagged, <<>>, "<None>", 0, <<>>),
      Scenario(<<SupplierConfig("order_nordic", NordicTag, TRUE),
                 SupplierConfig("petcare", None, TRUE)>>,
               CatalogTagged, InactiveLocations, "petcare", 1, <<>>),
      Scenario(<<SupplierConfig("order_nordic", NordicTag, TRUE)>>,
               CatalogTagged, OneLocation, "oase_outdoors", 0, <<>>),
      Scenario(<<SupplierConfig("order_nordic", NordicTag, FALSE)>>,
               CatalogTagged, OneLocation, "<None>", 0, <<>>) }

SupplierQtys == {0, 4, 60}

ArtNrs == {None, S1}

PageEans == {None, E2}

PageSkus == {None}

SupplierRecords ==
    { [ean |-> E1, sku |-> None, quantity |-> 0],
      [ean |-> E1Dashed, sku |-> S2, quantity |-> 40],
      [ean |-> None, sku |-> S1Spaced, quantity |-> 60],
      [ean |-> EShort, sku |-> S2, quantity |-> 0],
      [ean |-> EShort, sku |-> None, quantity |-> 4],
      [ean |-> E2, sku |-> None] }

\* an inventory with a record of every outcome: flagged, safe, no change,
\* not found in the catalog
MixedInventory ==
    << [ean |-> E1, sku |-> None, quantity |-> 0],
       [ean |-> EShort, sku |-> S2, quantity |-> 0],
       [ean |-> None, sku |-> S1Spaced, quantity |-> 60],
       [ean |-> EShort, sku |-> None, quantity |-> 4],
       [ean |-> E2, sku |-> S1, quantity |-> 60] >>

FetchedInventories ==
    UNION { [1..n -> SupplierRecords] : n \in 0..MaxFetched } \cup {MixedInventory}

Init ==
    /\ \E sc \in Scenarios, dry_run \in BOOLEAN, force \in BOOLEAN :
          /\ args = [supplier_filter |-> sc.supplier_filter, dry_run |-> dry_run,
                     force |-> force, test_limit |-> sc.test_limit,
                     test_eans |-> sc.test_eans]
          /\ suppliers_config = sc.suppliers
          /\ catalog = sc.catalog
          /\ locations = sc.locations
    /\ safety_limits = DefaultLimits
    /\ pc = "connect"
    /\ enabled_suppliers = <<>>
    /\ idx = 0
    /\ logger = SyncLogger
    /\ saved = FALSE
    /\ exit_code = <<>>
    /\ writes = <<>>
    /\ supplier = NoSupplier
    /\ batch = NoBatch
    /\ passes = <<>>
    /\ faults = 0
    /\ updater = NoUpdater
    /\ shopify_variants = <<>>
    /\ ean_lookup = <<>>
    /\ sku_lookup = <<>>
    /\ mcall = NoCall
    /\ ccall = NoCall
    /\ client = IdleClient

-----------------------------------------------------------------------------
(* main.py: sync_inventory *)

LogNotFound(supplier_name, lg, item) ==
    log_not_found(lg, item.supplier_product.ean, item.supplier_product.sku, supplier_name)

LogDuplicateMatch(supplier_name, lg, item) ==
    log_error(lg, "duplicate_identifier", item.error,
              [ean |-> item.supplier_product.ean, sku |-> item.supplier_product.sku,
               supplier |-> supplier_name])

LogBatchError(lg, error) ==
    log_error(lg, "shopify_update", error.error, [sku |-> error.sku, ean |-> error.ean])

\* the body of one of the logging loops of main.py, named by what it logs
LogItem(what, supplier_name, lg, item) ==
    CASE what = "duplicate"       -> log_duplicate(lg, item)
      [] what = "not_found"       -> LogNotFound(supplier_name, lg, item)
      [] what = "duplicate_match" -> LogDuplicateMatch(supplier_name, lg, item)
      [] what = "flagged"         -> log_flagged(lg, item)
      [] what = "update"          -> log_update(lg, item)
      [] what = "batch_error"     -> LogBatchError(lg, item)

RECURSIVE LogAll(_, _, _, _)
\* for item in items: log it
LogAll(what, supplier_name, lg, items) ==
    IF items = <<>> THEN lg
    ELSE LogAll(what, supplier_name, LogItem(what, supplier_name, lg, Head(items)),
                Tail(items))

\* what is remembered of the pass of one supplier: what it read at its start,
\* how far it got, what it searched, found, matched and classified
NewPass(supplier_name) ==
    [supplier        |-> supplier_name,
     status          |-> "running",
     stage           |-> "catalog",
     catalog_before  |-> catalog,
     all_products    |-> <<>>,
     errors_before   |-> Len(logger.errors),
     errors_after    |-> Len(logger.errors),
     search_based    |-> FALSE,
     searched        |-> <<>>,
     found_count     |-> 0,
     reconciled      |-> FALSE,
     cleanups        |-> 0,
     supplier_products |-> <<>>,
     match_results   |-> NoMatchResults,
     update_results  |-> NoUpdateResults,
     result          |-> NewResults]

\* the record of the pass of supplier idx is stored
PutPass(p) == IF idx > Len(passes) THEN Append(passes, p) ELSE [passes EXCEPT ![idx] = p]

\* a loop that takes the next supplier while the pass is left as running
EndOfPass_unfinished(lg, p, status) ==
    /\ logger' = lg
    /\ passes' = PutPass([p EXCEPT !.errors_after = Len(lg.errors)])
    /\ supplier' = NoSupplier
    /\ batch' = NoBatch
    /\ IF idx < Len(enabled_suppliers)
       THEN /\ idx' = idx + 1
            /\ pc' = "fetch_catalog"
            /\ UNCHANGED <<saved, exit_code>>
       ELSE /\ idx' = idx
            /\ pc' = "exited"
            /\ saved' = TRUE
            /\ exit_code' = <<IF has_errors(lg) THEN 1 ELSE 0>>

\* the loop of main.py 141: after the pass of supplier idx the next supplier
\* is taken; after the last one the summary is saved and the process exits
\* with 1 when the log holds an error and with 0 otherwise
EndOfPass(lg, p, status) ==
    /\ logger' = lg
    /\ passes' = PutPass([p EXCEPT !.status = status, !.errors_after = Len(lg.errors)])
    /\ supplier' = NoSupplier
    /\ batch' = NoBatch
    /\ IF idx < Len(enabled_suppliers)
       THEN /\ idx' = idx + 1
            /\ pc' = "fetch_catalog"
            /\ UNCHANGED <<saved, exit_code>>
       ELSE /\ idx' = idx
            /\ pc' = "exited"
            /\ saved' = TRUE
            /\ exit_code' = <<IF has_errors(lg) THEN 1 ELSE 0>>

\* a handler that logs nothing
except_handler_silent(lg, supplier_name, message) == lg

\* main.py 398-406: except Exception as e: log_error(...); continue
except_handler(lg, supplier_name, message) ==
    log_error(lg, "supplier_processing", message, [supplier |-> supplier_name])

Raise(lg, p, message) ==
    EndOfPass(except_handler(lg, p.supplier, message), p, "failed")

\* a fatal handler that leaves the log as it is
fatal_handler_silent(lg, message) == lg

\* main.py 446-448: except Exception as e: logger.log_error("fatal", str(e))
fatal_handler(lg, message) == log_error(lg, "fatal", message, NoContext)

\* the safety limits with the --force flag left without effect
apply_force_ignored(limits, force) == limits

\* main.py 94-98: --force switches the safety checks of the run off
apply_force(limits, force) ==
    IF force THEN [limits EXCEPT !.enable_safety_checks = FALSE] ELSE limits

\* main.py 86-138: force mode, the connection test, the enabled suppliers,
\* the supplier filter and the updater
Connect ==
    /\ pc = "connect"
    /\ \E connected \in BOOLEAN :
          /\ ~connected => faults < MaxFaults
          /\ IF ~connected
             THEN /\ logger' = fatal_handler(
                                    log_error(logger, "shopify_connection",
                                              "Failed to connect to Shopify", NoContext),
                                    "Shopify connection failed")
                  /\ saved' = TRUE
                  /\ exit_code' = <<1>>
                  /\ pc' = "exited"
                  /\ faults' = faults + 1
                  /\ UNCHANGED <<enabled_suppliers, updater, idx>>
             ELSE LET enabled  == SelectSeq(suppliers_config, LAMBDA s : s.enabled)
                      filtered == IF args.supplier_filter # "<None>"
                                  THEN SelectSeq(enabled, LAMBDA s :
                                           s.name = args.supplier_filter)
                                  ELSE enabled
                  IN  /\ enabled_suppliers' = filtered
                      /\ UNCHANGED <<logger, saved, faults>>
                      /\ IF filtered = <<>>
                         THEN /\ exit_code' = <<1>>
                              /\ pc' = "exited"
                              /\ UNCHANGED <<updater, idx>>
                         ELSE /\ updater' = InventoryUpdater(
                                     apply_force(safety_limits, args.force))
                              /\ idx' = 1
                              /\ pc' = "fetch_catalog"
                              /\ UNCHANGED exit_code
    /\ UNCHANGED <<args, suppliers_config, safety_limits, locations, catalog, writes,
                   supplier, batch, passes, shopify_variants, ean_lookup, sku_lookup,
                   mcall, ccall, client>>

\* main.py 142-201, 233-249: the pass starts; the catalog is listed and
\* indexed, its duplicates are logged, the supplier instance is created and
\* entered, and what is to be searched is drawn from the listing
FetchCatalog ==
    /\ pc = "fetch_catalog"
    /\ \E failed_page \in 0..PageCount(catalog), locations_ok \in BOOLEAN :
       LET supplier_config == enabled_suppliers[idx]
           supplier_name   == supplier_config.name
           lg0 == log_supplier_start(logger, supplier_name)
           p0  == [NewPass(supplier_name) EXCEPT
                      !.all_products = <<get_all_products(catalog, failed_page)>>]
           n   == (IF failed_page # 0 THEN 1 ELSE 0) + (IF locations_ok THEN 0 ELSE 1)
           sv  == get_product_variants_with_inventory(
                      get_all_products(catalog, failed_page),
                      supplier_config.shopify_tag,
                      get_primary_location_id(locations))
           el  == BuildLookup(sv, "EAN", <<>>)
           sl  == BuildLookup(sv, "SKU", <<>>)
           lg1 == LogAll("duplicate", supplier_name, lg0, get_duplicate_identifiers(el, sl))
           searched == IF supplier_name \in SearchByEan
                       THEN EanList(sv, args.test_eans, args.test_limit)
                       ELSE IF supplier_name \in SearchBySku
                       THEN SkuEanPairs(sv, args.test_limit)
                       ELSE <<>>
       IN  /\ faults + n <= MaxFaults
           /\ faults' = faults + n
           /\ IF ~locations_ok
              THEN /\ Raise(lg0, p0, "RequestException")
                   /\ UNCHANGED <<shopify_variants, ean_lookup, sku_lookup>>
              ELSE /\ shopify_variants' = sv
                   /\ ean_lookup' = el
                   /\ sku_lookup' = sl
                   /\ IF supplier_name \notin KnownSuppliers
                      THEN Raise(lg1, [p0 EXCEPT !.stage = "instance"], "Unknown supplier")
                      ELSE /\ logger' = lg1
                           /\ passes' = PutPass(
                                  [p0 EXCEPT !.stage = "authenticate",
                                             !.search_based =
                                                 supplier_name \in SearchByEan \cup SearchBySku,
                                             !.searched = searched])
                           /\ supplier' = [name |-> supplier_name, authenticated |-> FALSE]
                           /\ pc' = "authenticate"
                           /\ UNCHANGED <<idx, saved, exit_code, batch>>
    /\ UNCHANGED <<args, suppliers_config, safety_limits, locations, catalog, writes,
                   enabled_suppliers, updater, mcall, ccall, client>>

\* order_nordic.py 147-149, response_nordic.py 120-122, petcare.py 290-292:
\* the browser suppliers call cleanup() in authenticate before they re-raise
authenticate_cleanups(supplier_name) ==
    IF supplier_name \in SearchByEan \cup SearchBySku THEN 1 ELSE 0

\* supplier.authenticate(), called by main.py for the searching suppliers
\* and by get_products for the others; leaving the with block on an
\* exception runs cleanup()
Authenticate ==
    /\ pc = "authenticate"
    /\ \E outcome \in {"true", "false", "raise"} :
          /\ outcome # "true" => faults < MaxFaults
          /\ faults' = IF outcome = "true" THEN faults ELSE faults + 1
          /\ IF outcome = "true"
             THEN /\ supplier' = [supplier EXCEPT !.authenticated = TRUE]
                  /\ passes' = [passes EXCEPT ![idx].stage = "fetch"]
                  /\ pc' = "fetch"
                  /\ UNCHANGED <<logger, idx, saved, exit_code, batch>>
             ELSE Raise(logger,
                        [passes[idx] EXCEPT !.cleanups =
                            @ + 1 + (IF outcome = "raise"
                                     THEN authenticate_cleanups(supplier.name) ELSE 0)],
                        IF outcome = "false" THEN "Failed to authenticate"
                        ELSE "Authentication failed")
    /\ UNCHANGED <<args, suppliers_config, safety_limits, locations, catalog, writes,
                   enabled_suppliers, updater, shopify_variants, ean_lookup, sku_lookup,
                   mcall, ccall, client>>

\* main.py 283-355: the with block is left (cleanup), the records are
\* matched and classified and the outcomes logged; with a non-empty safe
\* set the batch is prepared, else the no-change items are logged and the
\* pass is over.  A matched record without a quantity raises in
\* process_updates.
AfterFetch(p1, supplier_products) ==
    LET name == p1.supplier
        p2  == [p1 EXCEPT !.cleanups = @ + 1, !.supplier_products = supplier_products,
                          !.stage = "classify"]
        lg1 == increment_supplier_products(logger, Len(supplier_products))
        mr  == match_products_batch(shopify_variants, ean_lookup, sku_lookup,
                                    supplier_products)
        lg2 == increment_matched_products(lg1, Len(mr.matched))
        lg3 == LogAll("not_found", name, lg2, mr.not_found)
        lg4 == LogAll("duplicate_match", name, lg3, mr.duplicates)
        p3  == [p2 EXCEPT !.match_results = mr]
        key_error == \E i \in 1..Len(mr.matched) :
                        "quantity" \notin DOMAIN mr.matched[i].supplier_product
        ur  == process_updates(updater, mr.matched, name)
        lg5 == LogAll("flagged", name, lg4, ur.flagged_updates)
        p4  == [p3 EXCEPT !.update_results = ur, !.stage = "apply"]
    IN  IF key_error THEN Raise(lg4, p3, "KeyError: quantity")
        ELSE IF ur.safe_updates = <<>>
        THEN EndOfPass(LogAll("update", name, lg5, ur.no_change), p4, "done")
        ELSE /\ logger' = lg5
             /\ passes' = [passes EXCEPT ![idx] = p4]
             /\ batch' = [updates |-> prepare_shopify_updates(ur)]
             /\ pc' = "batch"
             /\ UNCHANGED <<idx, saved, exit_code, supplier>>

EanAnswers ==
    {NotOnSupplier} \cup
    {[found |-> TRUE, sku |-> s, quantity |-> q] : s \in ArtNrs, q \in SupplierQtys}

SkuAnswers ==
    {NotOnSupplier} \cup
    {[found |-> TRUE, ean |-> e, sku |-> s, quantity |-> q] :
        e \in PageEans, s \in PageSkus, q \in SupplierQtys}

\* main.py 203-229: order_nordic and response_nordic
SearchProductsByEanList ==
    /\ pc = "fetch"
    /\ supplier.name \in SearchByEan
    /\ LET p == passes[idx]
           ean_list == p.searched
       IN  \/ /\ faults < MaxFaults
              /\ faults' = faults + 1
              /\ Raise(logger, [p EXCEPT !.cleanups = @ + 1], "search failed")
           \/ /\ UNCHANGED faults
              /\ \E answers \in [1..Len(ean_list) -> EanAnswers] :
                 LET supplier_products == EanSearchProducts(ean_list, answers)
                     found_eans     == FoundEans(supplier_products)
                     not_found_eans == Range(ean_list) \ found_eans
                     p1 == [p EXCEPT !.found_count = Cardinality(found_eans),
                                     !.reconciled = TRUE, !.stage = "abort_guard"]
                 IN  IF AbortGuard(Cardinality(found_eans), Len(ean_list))
                     THEN Raise(logger, [p1 EXCEPT !.cleanups = @ + 1],
                                "SAFETY CHECK FAILED")
                     ELSE \E order \in Orders(not_found_eans) :
                             AfterFetch(p1, supplier_products
                                            \o SynthesizedByEan(order, p.supplier))
    /\ UNCHANGED <<args, suppliers_config, safety_limits, locations, catalog, writes,
                   enabled_suppliers, updater, shopify_variants, ean_lookup, sku_lookup,
                   mcall, ccall, client>>

\* main.py 251-278: petcare
SearchProductsBySkuList ==
    /\ pc = "fetch"
    /\ supplier.name \in SearchBySku
    /\ LET p == passes[idx]
           sku_ean_pairs == p.searched
       IN  \/ /\ faults < MaxFaults
              /\ faults' = faults + 1
              /\ Raise(logger, [p EXCEPT !.cleanups = @ + 1], "search failed")
           \/ /\ UNCHANGED faults
              /\ \E answers \in [1..Len(sku_ean_pairs) -> SkuAnswers] :
                 LET supplier_products == SkuSearchProducts(sku_ean_pairs, answers)
                     found_eans     == FoundEans(supplier_products)
                     searched_eans  == {sku_ean_pairs[i].ean :
                                          i \in {j \in 1..Len(sku_ean_pairs) :
                                                    Truthy(sku_ean_pairs[j].ean)}}
                     not_found_eans == searched_eans \ found_eans
                     p1 == [p EXCEPT !.found_count = Cardinality(found_eans),
                                     !.reconciled = TRUE, !.stage = "abort_guard"]
                 IN  IF AbortGuard(Cardinality(found_eans), Len(sku_ean_pairs))
                     THEN Raise(logger, [p1 EXCEPT !.cleanups = @ + 1],
                                "SAFETY CHECK FAILED")
                     ELSE AfterFetch(p1, supplier_products
                                         \o SynthesizedBySku(sku_ean_pairs, not_found_eans))
    /\ UNCHANGED <<args, suppliers_config, safety_limits, locations, catalog, writes,
                   enabled_suppliers, updater, shopify_variants, ean_lookup, sku_lookup,
                   mcall, ccall, client>>

\* main.py 280-281: the other suppliers, get_products() after authenticate()
GetProducts ==
    /\ pc = "fetch"
    /\ supplier.name \notin SearchByEan \cup SearchBySku
    /\ LET p == passes[idx]
       IN  \/ /\ faults < MaxFaults
              /\ faults' = faults + 1
              /\ Raise(logger, [p EXCEPT !.cleanups = @ + 1], "fetch failed")
           \/ /\ UNCHANGED faults
              /\ \E products \in FetchedInventories : AfterFetch(p, products)
    /\ UNCHANGED <<args, suppliers_config, safety_limits, locations, catalog, writes,
                   enabled_suppliers, updater, shopify_variants, ean_lookup, sku_lookup,
                   mcall, ccall, client>>

\* shopify_client.py 350-356: the counters of a batch before its loop
InitialResults(updates) ==
    [total |-> Len(updates), successful |-> 0, failed |-> 0, skipped |-> 0,
     errors |-> <<>>]

\* shopify_client.py 368-370: the turn of the loop for one update of a dry run
RECURSIVE SimulateAll(_, _)
SimulateAll(results, updates) ==
    IF updates = <<>> THEN results
    ELSE SimulateAll([results EXCEPT !.skipped = @ + 1], Tail(updates))

\* a loop that is left at the first update that fails
batch_loop_ends_on_failure(i, updates, ok) == i = Len(updates) \/ ~ok

\* shopify_client.py 360-387: the loop runs over every update; the except
\* clause inside it keeps a failed update from ending it
batch_loop_ends(i, updates, ok) == i = Len(updates)

\* a batch call that is never told of the dry run
batch_dry_run_dropped(a) == FALSE

\* main.py 351-354: the dry_run argument of the batch call
batch_dry_run(a) == a.dry_run

\* main.py 357-396: the safe updates, the errors of the batch and the
\* no-change items are logged, and the pass is over
AfterBatch(results) ==
    LET p   == [passes[idx] EXCEPT !.result = results]
        lg1 == LogAll("update", p.supplier, logger, p.update_results.safe_updates)
        lg2 == LogAll("batch_error", p.supplier, lg1, results.errors)
        lg3 == LogAll("update", p.supplier, lg2, p.update_results.no_change)
    IN  EndOfPass(lg3, p, "done")

\* batch_update_inventory up to its loop: the primary location is asked for;
\* without one the call raises; in a dry run every update is skipped
BatchUpdateInventory ==
    /\ pc = "batch"
    /\ \E locations_ok \in BOOLEAN :
       LET location_id == get_primary_location_id(locations)
       IN  /\ ~locations_ok => faults < MaxFaults
           /\ faults' = IF locations_ok THEN faults ELSE faults + 1
           /\ IF ~locations_ok
              THEN Raise(logger, passes[idx], "RequestException")
              ELSE IF location_id = NoLocation
              THEN Raise(logger, passes[idx], "No location found for inventory updates")
              ELSE IF batch_dry_run(args)
              THEN AfterBatch(SimulateAll(InitialResults(batch.updates), batch.updates))
              ELSE /\ batch' = [updates |-> batch.updates, location_id |-> location_id,
                                i |-> 1, results |-> InitialResults(batch.updates)]
                   /\ pc' = "write"
                   /\ UNCHANGED <<logger, passes, idx, saved, exit_code, supplier>>
    /\ UNCHANGED <<args, suppliers_config, safety_limits, locations, catalog, writes,
                   enabled_suppliers, updater, shopify_variants, ean_lookup, sku_lookup,
                   mcall, ccall, client>>

\* one turn of the loop of batch_update_inventory: update_inventory_level
\* posts the quantity, and a failed request is counted and kept as an error;
\* after the last update the results go back to main.py
UpdateInventoryLevel ==
    /\ pc = "write"
    /\ \E ok \in BOOLEAN :
       LET update  == batch.updates[batch.i]
           results == IF ok
                      THEN [batch.results EXCEPT !.successful = @ + 1]
                      ELSE [batch.results EXCEPT
                               !.failed = @ + 1,
                               !.errors = Append(@, [sku |-> update.sku, ean |-> update.ean,
                                                     error |-> "RequestException"])]
       IN  /\ ~ok => faults < MaxFaults
           /\ faults' = IF ok THEN faults ELSE faults + 1
           /\ writes' = Append(writes,
                  [pass |-> idx,
                   inventory_item_id |-> safe_int(update.inventory_item_id, 0),
                   location_id |-> safe_int(batch.location_id, 0),
                   available |-> safe_int(update.quantity, 0),
                   ok |-> ok])
           /\ catalog' = IF ok
                         THEN SetAvailable(catalog, update.inventory_item_id, update.quantity)
                         ELSE catalog
           /\ IF batch_loop_ends(batch.i, batch.updates, ok)
              THEN AfterBatch(results)
              ELSE /\ batch' = [batch EXCEPT !.i = @ + 1, !.results = results]
                   /\ UNCHANGED <<logger, passes, idx, saved, exit_code, supplier, pc>>
    /\ UNCHANGED <<args, suppliers_config, safety_limits, locations,
                   enabled_suppliers, updater, shopify_variants, ean_lookup, sku_lookup,
                   mcall, ccall, client>>

Next ==
    \/ Connect
    \/ FetchCatalog
    \/ Authenticate
    \/ SearchProductsByEanList
    \/ SearchProductsBySkuList
    \/ GetProducts
    \/ BatchUpdateInventory
    \/ UpdateInventoryLevel

Spec == Init /\ [][Next]_vars

-----------------------------------------------------------------------------
(* The request routine on its own: calls of _make_request follow one
   another, and the server answers each HTTP request as it likes *)

Requests ==
    {[method |-> "GET", endpoint |-> "locations.json", data |-> None],
     [method |-> "POST", endpoint |-> "inventory_levels/set.json",
      data |-> <<"available">>]}

\* how long an HTTP request takes to be answered or to fail
Durations == {1, MinInterval}

\* how long the caller takes between two calls
Pauses == {0, 1}

NoHeaders == <<>>

RetryAfterHeaders == {NoHeaders} \cup {[h \in {"Retry-After"} |-> n] : n \in {0, 1}}

NetworkError == [status |-> 0, headers |-> NoHeaders, content |-> FALSE]

Responses ==
    {[status |-> 200, headers |-> NoHeaders, content |-> b] : b \in BOOLEAN}
    \cup {[status |-> 429, headers |-> h, content |-> FALSE] : h \in RetryAfterHeaders}
    \cup {[status |-> st, headers |-> NoHeaders, content |-> FALSE] : st \in {404, 500}}
    \cup {NetworkError}

\* the variables the request routine does not touch
rvars == <<shopify_variants, ean_lookup, sku_lookup, catalog, updater, mcall, ccall,
           pc, args, suppliers_config, safety_limits, locations, enabled_suppliers,
           idx, logger, saved, exit_code, writes, supplier, batch, passes, faults>>

InitRequest ==
    /\ catalog = <<>>
    /\ shopify_variants = <<>>
    /\ ean_lookup = <<>>
    /\ sku_lookup = <<>>
    /\ updater = InventoryUpdater(DefaultLimits)
    /\ mcall = NoCall
    /\ ccall = NoCall
    /\ client = IdleClient
    /\ NoRun

\* _make_request(method, endpoint, data) is called
MakeRequest ==
    /\ client.pc \in {"idle", "returned", "raised"}
    /\ \E request \in Requests, pause \in Pauses :
          client' = Tick([IdleClient EXCEPT !.pc = "attempt", !.request = request,
                                           !.since_sent = client.since_sent,
                                           !.since_mark = client.since_mark,
                                           !.gap = client.gap], pause)
    /\ UNCHANGED rvars

\* the try block of an attempt up to the rate-limit loop
WaitForRateLimit ==
    /\ client.pc = "attempt"
    /\ client' = [wait_for_rate_limit(client) EXCEPT !.rate_limit_attempt = 0,
                                                     !.pc = "request"]
    /\ UNCHANGED rvars

\* one turn of the rate-limit loop and what follows it: the request is sent;
\* a network error and a status of 400 or more other than 429 raise into the
\* except clause; 429 waits and goes round; anything else is returned
Request ==
    /\ client.pc = "request"
    /\ \E d \in Durations, response \in Responses :
       LET c == send(client, d)
           failure == [c EXCEPT !.consumed = @ + 1,
                                !.only_failures = @ /\ response.status \in {0, 500}]
           seen429 == [c EXCEPT !.only_failures = FALSE]
       IN  client' =
             IF response = NetworkError THEN except_RequestException(failure)
             ELSE IF response.status = 429 THEN rate_limited(seen429, response)
             ELSE IF raises_for_status(response) THEN except_RequestException(failure)
             ELSE [c EXCEPT !.pc = "returned", !.result = Decoded(response)]
    /\ UNCHANGED rvars

NextRequest ==
    \/ MakeRequest
    \/ WaitForRateLimit
    \/ Request

SpecRequest == InitRequest /\ [][NextRequest]_vars

\* the routine is straight-line code in one thread: time.sleep returns, and
\* every HTTP request is answered or fails within its timeout of 30 seconds,
\* so a step of a call that is under way is taken
SpecRequestLive ==
    SpecRequest /\ WF_vars(WaitForRateLimit) /\ WF_vars(Request)

-----------------------------------------------------------------------------
(* Properties of the matcher *)

CatalogVariants == FlattenVariants(catalog, NoLocation)

Matched == mcall.op = "match_product"

NEan == normalize_ean(mcall.ean)

NSku == normalize_sku(mcall.sku)

EanMiss == NEan = None \/ ~DictHas(shopify_variants, EanKey(NEan))

SkuMiss == NSku = None \/ ~DictHas(shopify_variants, SkuKey(NSku))

\* no two variants of the catalog carry the same barcode or the same SKU,
\* and no lookup list holds more than one variant
NoDuplicateIdentifiers ==
    /\ \A i, j \in 1..Len(CatalogVariants) : i # j =>
          /\ ~(Truthy(CatalogVariants[i].barcode)
               /\ CatalogVariants[i].barcode = CatalogVariants[j].barcode)
          /\ ~(Truthy(CatalogVariants[i].sku)
               /\ CatalogVariants[i].sku = CatalogVariants[j].sku)
    /\ ExtraEntries(ean_lookup) + ExtraEntries(sku_lookup) = 0

Reported(t, id) ==
    \E k \in 1..Len(get_duplicate_identifiers(ean_lookup, sku_lookup)) :
        LET d == get_duplicate_identifiers(ean_lookup, sku_lookup)[k]
        IN  d.type = t /\ d.identifier = id /\ d.count > 1

\* C5: when two distinct variants of the catalog carry the same EAN (or the
\* same SKU), the index built from the listing reports the identifier as a
\* duplicate with count > 1, and a record matched on it is a Duplicate.
C5_SharedIdentifierIsDuplicate ==
    \A i, j \in 1..Len(CatalogVariants) : i # j =>
        /\ (Truthy(CatalogVariants[i].barcode)
            /\ CatalogVariants[i].barcode = CatalogVariants[j].barcode)
           => /\ Reported("EAN", CatalogVariants[i].barcode)
              /\ (Matched /\ NEan = CatalogVariants[i].barcode)
                 => mcall.result.match_type = "duplicate"
        /\ (Truthy(CatalogVariants[i].sku)
            /\ CatalogVariants[i].sku = CatalogVariants[j].sku)
           => /\ Reported("SKU", CatalogVariants[i].sku)
              /\ (Matched /\ NEan = None /\ NSku = CatalogVariants[i].sku)
                 => mcall.result.match_type = "duplicate"

\* C6: EAN priority.  In a catalog without duplicate identifiers, a record
\* whose normalized EAN is a key of the index is matched to the variant
\* stored under that EAN, by EAN, whatever its SKU is.
C6_EanPriority ==
    (Matched /\ NoDuplicateIdentifiers /\ ~EanMiss)
    => mcall.result = MatchResult(DictGet(shopify_variants, EanKey(NEan)), "ean", NoError)

C6_Witness ==
    /\ Matched /\ NoDuplicateIdentifiers /\ ~EanMiss /\ ~SkuMiss
    /\ mcall.result.match_type = "ean"
    /\ DictGet(shopify_variants, SkuKey(NSku)).variant_id
         # mcall.result.variant.variant_id

\* C7: a duplicate is terminal.  A record whose normalized EAN has more than
\* one variant in the index is a Duplicate on the EAN, whatever its SKU
\* resolves to; a result decided at the SKU stage (a SKU match or a SKU
\* duplicate) occurs only when the normalized EAN is absent or not a key.
C7_DuplicateIsTerminal ==
    Matched =>
        /\ (NEan # None /\ LookupLen(ean_lookup, NEan) > 1)
           => /\ mcall.result.match_type = "duplicate"
              /\ mcall.result.variant = NoVariant
              /\ mcall.result.error =
                    [text |-> "Multiple products found with EAN", id |-> NEan]
        /\ (\/ mcall.result.match_type = "sku"
            \/ /\ mcall.result.match_type = "duplicate"
               /\ mcall.result.error.text = "Multiple products found with SKU")
           => EanMiss

C7_Witness ==
    /\ Matched /\ NEan # None /\ LookupLen(ean_lookup, NEan) > 1
    /\ ~SkuMiss /\ LookupLen(sku_lookup, NSku) = 1
    /\ mcall.result.match_type = "duplicate"

\* C8: SKU fallback and miss.  When the EAN is absent, invalid or not a key
\* and the normalized SKU is a key with exactly one variant, the record is
\* matched to that variant by SKU; when neither identifier is a key the
\* result is NotFound, with no variant and an error message.
C8_SkuFallbackAndMiss ==
    (Matched /\ EanMiss) =>
        /\ (~SkuMiss /\ LookupLen(sku_lookup, NSku) = 1)
           => mcall.result =
                 MatchResult(DictGet(shopify_variants, SkuKey(NSku)), "sku", NoError)
        /\ SkuMiss
           => /\ mcall.result.variant = NoVariant
              /\ mcall.result.match_type = "not_found"
              /\ mcall.result.error # NoError
              /\ mcall.result.error.text # ""

C8_Witness ==
    /\ Matched /\ Truthy(mcall.ean) /\ NEan # None /\ EanMiss
    /\ ~SkuMiss /\ LookupLen(sku_lookup, NSku) = 1
    /\ mcall.result.match_type = "sku"
    /\ mcall.result.variant.sku # mcall.sku

OnlyWithEan(v) ==
    \A k \in 1..Len(CatalogVariants) :
        normalize_ean(CatalogVariants[k].barcode) = normalize_ean(v.barcode)
        => CatalogVariants[k].variant_id = v.variant_id

OnlyWithSku(v) ==
    \A k \in 1..Len(CatalogVariants) :
        normalize_sku(CatalogVariants[k].sku) = normalize_sku(v.sku)
        => CatalogVariants[k].variant_id = v.variant_id

\* C9: the index is keyed by normalized identifiers.  A record whose EAN
\* normalizes to what a variant's barcode normalizes to (or, with no EAN,
\* whose SKU normalizes to what the variant's SKU normalizes to) is matched
\* to that variant, when no other variant shares the normalized identifier.
C9_KeyedByNormalizedIdentifiers ==
    (Matched /\ ExtraEntries(ean_lookup) + ExtraEntries(sku_lookup) = 0) =>
        \A k \in 1..Len(CatalogVariants) :
            LET v == CatalogVariants[k]
            IN  /\ (NEan # None /\ NEan = normalize_ean(v.barcode) /\ OnlyWithEan(v))
                   => /\ mcall.result.variant # NoVariant
                      /\ mcall.result.variant.variant_id = v.variant_id
                /\ (NEan = None /\ NSku # None /\ NSku = normalize_sku(v.sku)
                    /\ OnlyWithSku(v))
                   => /\ mcall.result.variant # NoVariant
                      /\ mcall.result.variant.variant_id = v.variant_id

-----------------------------------------------------------------------------
(* Properties of the safety decision *)

ReferenceDecision(old_qty, new_qty, u) ==
    IF old_qty >= u.min_quantity_for_zero_check /\ new_qty = 0
    THEN "high_quantity_to_zero"
    ELSE IF new_qty = 0 THEN "none"
    ELSE IF /\ old_qty > 0
            /\ new_qty < old_qty
            /\ (old_qty - new_qty) * 100 >= u.max_quantity_drop_percent * old_qty
         THEN "quantity_drop"
         ELSE "none"

\* C10: with checks enabled and old # new, the decision is the reference
\* table: high_quantity_to_zero iff old >= min and new = 0; else safe when
\* new = 0; else quantity_drop iff old > 0, new < old and
\* (old - new) * 100 >= max * old; else safe.
C10_DecisionIsReferenceTable ==
    (/\ ccall.op = "should_flag_update"
     /\ updater.enable_safety_checks
     /\ ccall.old_qty # ccall.new_qty)
    => ccall.result.kind = ReferenceDecision(ccall.old_qty, ccall.new_qty, updater)

\* C11: for every configuration of the two thresholds and all quantities old
\* and new, the percentage-drop flag is never produced when new = 0 and never
\* produced when new > old.
C11_DropFlagOnlyOnDecrease ==
    (/\ ccall.op = "should_flag_update"
     /\ (ccall.new_qty = 0 \/ ccall.new_qty > ccall.old_qty))
    => ccall.result.kind # "quantity_drop"

-----------------------------------------------------------------------------
(* Properties of the orchestrator *)

\* the inventory writes requested during the pass of supplier k
PassWrites(k) == SelectSeq(writes, LAMBDA w : w.pass = k)

\* the errors logged during the pass of supplier k
PassErrors(k) ==
    SubSeq(logger.errors, passes[k].errors_before + 1,
           IF passes[k].status = "running" THEN Len(logger.errors)
           ELSE passes[k].errors_after)

\* those of them that are supplier_processing errors naming the supplier
SupplierErrors(k) ==
    SelectSeq(PassErrors(k), LAMBDA e :
        e.type = "supplier_processing" /\ e.context.supplier = passes[k].supplier)

\* the platform catalog as the pass of supplier k left it
CatalogAfter(k) == IF k < Len(passes) THEN passes[k + 1].catalog_before ELSE catalog

FoundNothing(k) ==
    /\ passes[k].search_based
    /\ passes[k].reconciled
    /\ Len(passes[k].searched) > 0
    /\ passes[k].found_count = 0

\* C1: abort guard.  When the pass of a searching supplier (order_nordic,
\* response_nordic, petcare) searched at least one identifier and found none
\* on the supplier, the pass requests no inventory write, exactly one
\* supplier_processing error naming the supplier is logged during it, and
\* it leaves every quantity of the catalog as it was.
C1_AbortGuard ==
    \A k \in 1..Len(passes) : FoundNothing(k) =>
        /\ PassWrites(k) = <<>>
        /\ Len(SupplierErrors(k)) = 1
        /\ Len(PassErrors(k)) = 1
        /\ passes[k].status = "failed"
        /\ CatalogAfter(k) = passes[k].catalog_before

C1_Witness ==
    /\ pc = "exited"
    /\ ~args.dry_run
    /\ \E k \in 1..Len(passes) :
          /\ FoundNothing(k)
          /\ passes[k].stage = "abort_guard"
          /\ Len(passes[k].searched) > 1
          /\ k < Len(passes)
          /\ PassWrites(k + 1) # <<>>

\* C2: every inventory write of a pass is the write of an entry of the
\* pass's safe set: the j-th write targets the item of the j-th safe entry
\* and carries its new quantity, so a pass requests at most one write per
\* safe entry and none for a flagged entry, a no-change entry, or a record
\* whose match outcome is duplicate or not-found; an item that is the item
\* of no safe entry is never written.
C2_WritesAreSafeEntries ==
    \A k \in 1..Len(passes) :
        LET ws   == PassWrites(k)
            safe == passes[k].update_results.safe_updates
            rest == passes[k].update_results.flagged_updates
                    \o passes[k].update_results.no_change
        IN  /\ Len(ws) <= Len(safe)
            /\ \A j \in 1..Len(ws) :
                  /\ ws[j].inventory_item_id = safe[j].inventory_item_id
                  /\ ws[j].available = safe[j].new_quantity
            /\ \A i \in 1..Len(rest) :
                  (\A j \in 1..Len(safe) :
                      safe[j].inventory_item_id # rest[i].inventory_item_id)
                  => \A j \in 1..Len(ws) :
                        ws[j].inventory_item_id # rest[i].inventory_item_id

C2_Witness ==
    \E k \in 1..Len(passes) :
        /\ passes[k].status = "done"
        /\ passes[k].update_results.flagged_updates # <<>>
        /\ passes[k].match_results.not_found # <<>>
        /\ Len(PassWrites(k)) = Len(passes[k].update_results.safe_updates)
        /\ PassWrites(k) # <<>>
        /\ PassWrites(k)[1].ok

\* the variants of the catalog as the pass of supplier k read it
CatalogRead(k) == FlattenVariants(passes[k].catalog_before, NoLocation)

\* C3: with safety checks enabled, no inventory write sets to 0 the
\* quantity of a variant whose quantity, as the catalog gave it at the start
\* of the pass, is at least min_quantity_for_zero_check; the zero quantities
\* that reconciliation makes up for identifiers not found on the supplier
\* are no exception.
C3_NoZeroWriteOnHighQuantity ==
    (updater # NoUpdater /\ updater.enable_safety_checks) =>
        \A n \in 1..Len(writes) : writes[n].available = 0 =>
            \A i \in 1..Len(CatalogRead(writes[n].pass)) :
                CatalogRead(writes[n].pass)[i].inventory_item_id
                    = writes[n].inventory_item_id
                => CatalogRead(writes[n].pass)[i].inventory_quantity
                       < updater.min_quantity_for_zero_check

C3_Witness ==
    /\ updater # NoUpdater /\ updater.enable_safety_checks
    /\ \E k \in 1..Len(passes) :
          /\ passes[k].status = "done"
          /\ \E i \in 1..Len(passes[k].supplier_products) :
                /\ "status" \in DOMAIN passes[k].supplier_products[i]
                /\ \E f \in 1..Len(passes[k].update_results.flagged_updates) :
                      /\ passes[k].update_results.flagged_updates[f].ean
                            = passes[k].supplier_products[i].ean
                      /\ passes[k].update_results.flagged_updates[f].flag_reason.kind
                            = "high_quantity_to_zero"
          /\ \E n \in 1..Len(writes) :
                writes[n].pass = k /\ writes[n].available = 0 /\ writes[n].ok

\* C4: failure isolation.  Whatever the stage at which the pass of a
\* supplier raises, exactly one supplier_processing error naming the
\* supplier is logged during the pass, the loop goes on with the next
\* supplier, and the run ends only when every enabled supplier has had its
\* pass, to its end or to its failure.
C4_FailureIsolation ==
    /\ \A k \in 1..Len(passes) :
          /\ passes[k].status = "failed" => Len(SupplierErrors(k)) = 1
          /\ passes[k].status # "failed" => Len(SupplierErrors(k)) = 0
          /\ k < Len(passes) => passes[k].status \in {"done", "failed"}
          /\ (passes[k].status # "running" /\ k < Len(enabled_suppliers))
             => (idx = k + 1 /\ pc = "fetch_catalog") \/ k < Len(passes)
    /\ Len(passes) <= Len(enabled_suppliers)
    /\ \A k \in 1..Len(passes) : passes[k].supplier = enabled_suppliers[k].name
    /\ pc = "exited" =>
          /\ Len(passes) = Len(enabled_suppliers)
          /\ \A k \in 1..Len(passes) : passes[k].status \in {"done", "failed"}

C4_Witness ==
    /\ pc = "exited"
    /\ Len(passes) = 2
    /\ passes[1].status = "failed"
    /\ passes[1].stage = "classify"
    /\ passes[2].status = "done"
    /\ \E n \in 1..Len(writes) : writes[n].pass = 2 /\ writes[n].ok

\* the matched records of the pass of supplier k whose quantity differs from
\* the quantity the catalog holds for the matched variant
Changed(k) ==
    SelectSeq(passes[k].match_results.matched,
              LAMBDA m : m.shopify_variant.inventory_quantity
                            # m.supplier_product.quantity)

\* C12: in a run started with force no matched item is classified flagged,
\* whatever the old and new quantities and the thresholds: every matched item
\* whose quantity differs from the catalog is in the safe set, in order, and
\* the safe set is what is submitted to the batch and, in a live run that
\* completes the pass, what is written.
C12_ForceDisablesFlagging ==
    args.force =>
    \A k \in 1..Len(passes) :
        passes[k].stage = "apply" =>
        LET changed == Changed(k)
            safe    == passes[k].update_results.safe_updates
        IN  /\ passes[k].update_results.flagged_updates = <<>>
            /\ logger.flagged = <<>>
            /\ Len(safe) = Len(changed)
            /\ \A j \in 1..Len(safe) :
                  /\ safe[j].inventory_item_id
                        = changed[j].shopify_variant.inventory_item_id
                  /\ safe[j].new_quantity = changed[j].supplier_product.quantity
            /\ (k = idx /\ pc \in {"batch", "write"}) =>
                  /\ Len(batch.updates) = Len(changed)
                  /\ \A j \in 1..Len(changed) :
                        /\ batch.updates[j].inventory_item_id
                              = changed[j].shopify_variant.inventory_item_id
                        /\ batch.updates[j].quantity
                              = changed[j].supplier_product.quantity
            /\ (passes[k].status = "done" /\ ~args.dry_run) =>
                  Len(PassWrites(k)) = Len(changed)

\* a forced live pass has written a zero over a quantity at or above
\* min_quantity_for_zero_check and a drop of more than the percentage limit
C12_Witness ==
    /\ args.force
    /\ ~args.dry_run
    /\ \E k \in 1..Len(passes) :
          /\ passes[k].status = "done"
          /\ \E i, j \in 1..Len(Changed(k)) :
                /\ Changed(k)[i].supplier_product.quantity = 0
                /\ Changed(k)[i].shopify_variant.inventory_quantity
                      >= safety_limits.min_quantity_for_zero_check
                /\ should_flag_update(InventoryUpdater(safety_limits),
                       Changed(k)[j].shopify_variant.inventory_quantity,
                       Changed(k)[j].supplier_product.quantity).kind = "quantity_drop"
          /\ Len(PassWrites(k)) = Len(Changed(k))

\* the number of writes of the pass of supplier k that succeeded (ok = TRUE)
\* or failed (ok = FALSE)
WritesWith(k, ok) == Len(SelectSeq(PassWrites(k), LAMBDA w : w.ok = ok))

\* C13: for every batch and every pattern of write failures the result has
\* successful + failed + skipped = total and failed = length of errors; every
\* update is attempted exactly once, in list order, and a failed update does
\* not keep the updates after it from being attempted.
C13_BatchAccounting ==
    /\ \A k \in 1..Len(passes) :
          (passes[k].status = "done" /\ passes[k].update_results.safe_updates # <<>>) =>
          LET r    == passes[k].result
              safe == passes[k].update_results.safe_updates
              ws   == PassWrites(k)
          IN  /\ r.total = Len(safe)
              /\ r.successful + r.failed + r.skipped = r.total
              /\ r.failed = Len(r.errors)
              /\ ~args.dry_run =>
                    /\ Len(ws) = r.total
                    /\ \A j \in 1..Len(ws) :
                          /\ ws[j].inventory_item_id = safe[j].inventory_item_id
                          /\ ws[j].available = safe[j].new_quantity
                    /\ r.successful = WritesWith(k, TRUE)
                    /\ r.failed = WritesWith(k, FALSE)
    /\ pc = "write" =>
          /\ batch.results.successful + batch.results.failed = batch.i - 1
          /\ batch.results.failed = Len(batch.results.errors)
          /\ batch.results.total = Len(batch.updates)
          /\ Len(PassWrites(idx)) = batch.i - 1

\* a live batch of two updates whose first write failed and whose second
\* write was attempted and succeeded
C13_Witness ==
    \E k \in 1..Len(passes) :
        /\ passes[k].status = "done"
        /\ passes[k].update_results.safe_updates # <<>>
        /\ passes[k].result.total = 2
        /\ passes[k].result.failed = 1
        /\ Len(PassWrites(k)) = 2
        /\ ~PassWrites(k)[1].ok
        /\ PassWrites(k)[2].ok

\* C14: in a dry run no inventory write request is sent to the platform,
\* whatever the input, the catalog keeps its quantities, and every batch
\* result has successful = 0, failed = 0 and skipped = total.
C14_DryRunWritesNothing ==
    args.dry_run =>
        /\ writes = <<>>
        /\ pc # "write"
        /\ \A k \in 1..Len(passes) :
              /\ passes[k].catalog_before = catalog
              /\ (passes[k].status = "done"
                  /\ passes[k].update_results.safe_updates # <<>>) =>
                    /\ passes[k].result.successful = 0
                    /\ passes[k].result.failed = 0
                    /\ passes[k].result.errors = <<>>
                    /\ passes[k].result.total
                          = Len(passes[k].update_results.safe_updates)
                    /\ passes[k].result.skipped = passes[k].result.total

\* a dry run has completed a pass whose batch held two safe updates, and
\* the log records their old and new quantities
C14_Witness ==
    /\ args.dry_run
    /\ \E k \in 1..Len(passes) :
          /\ passes[k].status = "done"
          /\ Len(passes[k].update_results.safe_updates) = 2
          /\ passes[k].result.skipped = 2
          /\ \E i \in 1..Len(logger.updates) :
                logger.updates[i].old_qty # logger.updates[i].new_qty

\* C19: the product listing follows the next-page references to the end:
\* what get_all_products returns to a pass is the concatenation, in order, of
\* all the pages of the catalog, never a truncated list.
C19_ListingIsComplete ==
    \A k \in 1..Len(passes) :
        \A i \in 1..Len(passes[k].all_products) :
            passes[k].all_products[i] = passes[k].catalog_before

\* the records of the pass of supplier k, after reconciliation, that answer
\* the i-th searched identifier: the records under that EAN for an EAN
\* search, the records under that SKU for a SKU search
RecordsFor(k, i) ==
    SelectSeq(passes[k].supplier_products,
              LAMBDA r : IF passes[k].supplier \in SearchByEan
                         THEN r.ean = passes[k].searched[i]
                         ELSE r.sku = passes[k].searched[i].sku)

\* C20: for a search-based supplier with at least one identifier found,
\* after reconciliation every searched catalog identifier has exactly one
\* supplier record: the supplier's own if one was returned, else a
\* synthesized one with quantity 0 and the not_found_on_supplier marker.
C20_ReconciliationCoversSearched ==
    \A k \in 1..Len(passes) :
        (/\ passes[k].reconciled
         /\ passes[k].found_count >= 1
         /\ passes[k].stage \in {"classify", "apply"}) =>
        \A i \in 1..Len(passes[k].searched) :
            /\ Len(RecordsFor(k, i)) = 1
            /\ "status" \in DOMAIN RecordsFor(k, i)[1] =>
                  /\ RecordsFor(k, i)[1].quantity = 0
                  /\ RecordsFor(k, i)[1].status = "not_found_on_supplier"

\* a hard error of the run: a supplier pass that failed, a platform write that
\* failed, or a fatal error that ended the run before any pass began
HardError ==
    \/ \E k \in 1..Len(passes) : passes[k].status = "failed"
    \/ \E i \in 1..Len(writes) : ~writes[i].ok
    \/ idx = 0

C22_LogSavedBeforeExit ==
    exit_code # <<>> => saved

\* the connectivity check of the run failed
ConnectionFailed ==
    \E i \in 1..Len(logger.errors) : logger.errors[i].type = "shopify_connection"

\* C23: a failed connectivity check is fatal to the whole run: no supplier
\* pass is started (no catalog fetch, no supplier authentication, no platform
\* write), the connection error and the fatal error are recorded in the run
\* log, and the process exits with a non-zero status.
C23_ConnectionFailureIsFatal ==
    ConnectionFailed =>
        /\ pc = "exited"
        /\ exit_code = <<1>>
        /\ passes = <<>>
        /\ logger.suppliers_processed = <<>>
        /\ shopify_variants = <<>>
        /\ supplier = NoSupplier
        /\ writes = <<>>
        /\ Len(logger.errors) = 2
        /\ logger.errors[2].type = "fatal"
        /\ logger.summary.errors = 2

\* the connectivity check failed in a run that had suppliers to process
C23_Witness ==
    /\ ConnectionFailed
    /\ \E i \in 1..Len(suppliers_config) : suppliers_config[i].enabled
    /\ exit_code = <<1>>

\* the pass of supplier k has entered the scope of its supplier instance
ScopeEntered(k) ==
    passes[k].stage \in {"authenticate", "fetch", "abort_guard", "classify", "apply"}

\* the pass of supplier k has left that scope
ScopeLeft(k) ==
    /\ ScopeEntered(k)
    /\ passes[k].status # "running" \/ passes[k].stage \in {"classify", "apply"}

\* C24: for every supplier whose session scope is entered, cleanup() is
\* invoked exactly once on every exit path (successful fetch, authentication
\* returning false, authentication or fetch raising, the abort guard firing),
\* and before any platform write of the supplier's pass.
C24_CleanupExactlyOnce ==
    \A k \in 1..Len(passes) :
        /\ passes[k].cleanups <= 1
        /\ ScopeLeft(k) => passes[k].cleanups = 1
        /\ PassWrites(k) # <<>> => passes[k].cleanups = 1
        /\ (k = idx /\ pc \in {"batch", "write"}) => passes[k].cleanups = 1

\* the least element of a non-empty set of positions
FirstOf(positions) == CHOOSE i \in positions : \A j \in positions : i <= j

\* id is the location the resolution is to return for the platform's locations
ResolvedLocation(id) ==
    LET n      == Len(locations)
        legacy == {i \in 1..n : locations[i].active /\ locations[i].legacy}
        active == {i \in 1..n : locations[i].active}
    IN  /\ locations # <<>>
        /\ id = locations[IF legacy # {} THEN FirstOf(legacy)
                          ELSE IF active # {} THEN FirstOf(active) ELSE 1].id

\* C25: primary location resolution returns the first location that is both
\* active and legacy if one exists, else the first active location, else the
\* first location of the list; with an empty list it fails, both when the
\* variant list is built and when updates are applied, so that no variant
\* record and no write is without a location.
C25_PrimaryLocation ==
    /\ \A i \in 1..Len(shopify_variants) :
           ResolvedLocation(shopify_variants[i][2].location_id)
    /\ pc = "write" => ResolvedLocation(batch.location_id)
    /\ \A i \in 1..Len(writes) : ResolvedLocation(writes[i].location_id)

\* C26: normalize_ean is total and idempotent, normalize_ean(normalize_ean(x))
\* = normalize_ean(x) for every x, None and the empty string included; its
\* result is None or a string of 8 to 14 digits; an input that holds a
\* character other than a digit, whitespace, a dash or an underscore gives None.
C26_NormalizeEan ==
    ccall.op \in {"normalize_ean", "normalize_ean_again"} =>
        /\ \/ ccall.result = None
           \/ /\ Len(ccall.result) \in 8..14
              /\ \A i \in 1..Len(ccall.result) : ccall.result[i] \in Digits
        /\ (\E i \in 1..Len(ccall.ean) :
                ccall.ean[i] \notin Digits \cup {" ", "\t", "\n", "-", "_"})
               => ccall.result = None
        /\ ccall.op = "normalize_ean_again" => ccall.again = ccall.result

\* a raw identifier with separators was normalised to digits, and again
C26_Witness ==
    /\ ccall.op = "normalize_ean_again"
    /\ ccall.result # None
    /\ ccall.result # ccall.ean
    /\ Len(ccall.result) = 14

\* the list match_product files a record of the last batch under
Filed(product) ==
    LET t == match_product(shopify_variants, ean_lookup, sku_lookup,
                           product.ean, product.sku).match_type
    IN  IF t \in {"duplicate", "not_found"} THEN t ELSE "matched"

\* the records of the last batch that match_product files under list
FiledUnder(list) == SelectSeq(mcall.supplier_products, LAMBDA p : Filed(p) = list)

SupplierProducts(entries) == [i \in 1..Len(entries) |-> entries[i].supplier_product]

\* C27: match_products_batch partitions its input: each record appears in
\* exactly one of matched, duplicates and not_found, the one match_product
\* gives for it, in input order and carrying the original record, so that
\* the three lengths add up to the number of records.
C27_BatchPartitions ==
    mcall.op = "match_products_batch" =>
        LET r == mcall.result
        IN  /\ Len(r.matched) + Len(r.duplicates) + Len(r.not_found)
                  = Len(mcall.supplier_products)
            /\ SupplierProducts(r.matched) = FiledUnder("matched")
            /\ SupplierProducts(r.duplicates) = FiledUnder("duplicate")
            /\ SupplierProducts(r.not_found) = FiledUnder("not_found")
            /\ \A i \in 1..Len(r.matched) :
                   LET m == match_product(shopify_variants, ean_lookup, sku_lookup,
                                          r.matched[i].supplier_product.ean,
                                          r.matched[i].supplier_product.sku)
                   IN  /\ r.matched[i].shopify_variant = m.variant
                       /\ r.matched[i].match_type = m.match_type

\* a batch of three records, one in each list
C27_Witness ==
    /\ mcall.op = "match_products_batch"
    /\ Len(mcall.result.matched) = 1
    /\ Len(mcall.result.duplicates) = 1
    /\ Len(mcall.result.not_found) = 1

\* the stages of a pass, in the order of main.py 141-396
StageRank(stage) ==
    CASE stage = "catalog"      -> 1
      [] stage = "instance"     -> 2
      [] stage = "authenticate" -> 3
      [] stage = "fetch"        -> 4
      [] stage = "abort_guard"  -> 5
      [] stage = "classify"     -> 6
      [] stage = "apply"        -> 7

\* the update and no-change entries the log holds for a supplier
LoggedUpdates(supplier_name) ==
    SelectSeq(logger.updates \o logger.no_changes, LAMBDA e : e.supplier = supplier_name)

\* what the records of the passes tell of the order of their stages
StagesInOrder ==
    /\ Len(passes) <= idx
    /\ \A i \in 1..Len(writes) : \A j \in i..Len(writes) : writes[i].pass <= writes[j].pass
    /\ \A k \in 1..Len(passes) :
        LET p == passes[k]
            m == p.match_results
            u == p.update_results
        IN  /\ k # idx => p.status # "running"
            /\ (p.found_count > 0 \/ p.reconciled) => StageRank(p.stage) >= 4
            /\ (p.supplier_products # <<>> \/ m # NoMatchResults) => StageRank(p.stage) >= 6
            /\ u # NoUpdateResults =>
                   /\ p.stage = "apply"
                   /\ Len(u.safe_updates) + Len(u.flagged_updates) + Len(u.no_change)
                         = Len(m.matched)
            /\ PassWrites(k) # <<>> =>
                   /\ p.stage = "apply"
                   /\ Len(m.matched) + Len(m.not_found) + Len(m.duplicates)
                         = Len(p.supplier_products)
                   /\ Len(u.safe_updates) + Len(u.flagged_updates) + Len(u.no_change)
                         = Len(m.matched)
                   /\ Len(PassWrites(k)) <= Len(u.safe_updates)
            /\ p.status = "running" => LoggedUpdates(p.supplier) = <<>>

\* what a step may do to the passes: a stage never goes back, a finished pass
\* is left as it is, a pass begins only when every other is finished, and a
\* write belongs to the running pass in its apply stage
StepInOrder ==
    /\ \A k \in 1..Len(passes) :
           /\ k <= Len(passes')
           /\ StageRank(passes'[k].stage) >= StageRank(passes[k].stage)
           /\ passes[k].status # "running" => passes'[k] = passes[k]
    /\ Len(passes') > Len(passes) =>
           /\ pc = "fetch_catalog"
           /\ Len(passes') = Len(passes) + 1
           /\ \A k \in 1..Len(passes) : passes[k].status # "running"
    /\ writes' # writes =>
           /\ writes' = Append(writes, writes'[Len(writes')])
           /\ writes'[Len(writes')].pass = idx
           /\ passes[idx].stage = "apply"
           /\ passes[idx].status = "running"
           /\ passes[idx].update_results.safe_updates # <<>>

C29_ListingRetried ==
    \A k \in 1..Len(passes) :
        \A i \in 1..Len(passes[k].all_products) :
            passes[k].all_products[i] # passes[k].catalog_before
                => /\ passes[k].stage = "catalog"
                   /\ passes[k].status = "failed"
                   /\ SupplierErrors(k) # <<>>

\* the entries of a list of the log that name the supplier
EntriesOf(entries, supplier_name) ==
    SelectSeq(entries, LAMBDA e : e.supplier = supplier_name)

\* the shopify_update errors logged during the pass of supplier k
WriteErrors(k) == SelectSeq(PassErrors(k), LAMBDA e : e.type = "shopify_update")

\* C30: after a supplier pass that reached classification the log holds one
\* entry for each safe, flagged and no-change item of the supplier (the
\* no-change items in the no-change list), one not-found entry for each record
\* not found and one error entry for each failed write, whether the safe set
\* is empty or not and whether the apply stage raised or not.
C30_LogComplete ==
    \A k \in 1..Len(passes) :
        LET p == passes[k]
        IN  (p.status # "running" /\ p.stage = "apply") =>
                /\ Len(EntriesOf(logger.updates, p.supplier))
                      = Len(p.update_results.safe_updates)
                /\ Len(EntriesOf(logger.no_changes, p.supplier))
                      = Len(p.update_results.no_change)
                /\ Len(EntriesOf(logger.flagged, p.supplier))
                      = Len(p.update_results.flagged_updates)
                /\ Len(EntriesOf(logger.not_found, p.supplier))
                      = Len(p.match_results.not_found)
                /\ Len(WriteErrors(k)) = p.result.failed

\* list a is the beginning of list b
IsPrefix(a, b) == Len(a) <= Len(b) /\ SubSeq(b, 1, Len(a)) = a

\* each counter of the summary is the length of its list
CountersMatchLists ==
    /\ logger.summary.updated_in_shopify = Len(logger.updates)
    /\ logger.summary.no_change = Len(logger.no_changes)
    /\ logger.summary.not_found_in_shopify = Len(logger.not_found)
    /\ logger.summary.duplicate_identifiers = Len(logger.duplicates)
    /\ logger.summary.flagged_for_review = Len(logger.flagged)
    /\ logger.summary.errors = Len(logger.errors)

\* a step leaves every entry of the log in its place
ListsOnlyGrow ==
    /\ IsPrefix(logger.updates, logger'.updates)
    /\ IsPrefix(logger.no_changes, logger'.no_changes)
    /\ IsPrefix(logger.not_found, logger'.not_found)
    /\ IsPrefix(logger.duplicates, logger'.duplicates)
    /\ IsPrefix(logger.flagged, logger'.flagged)
    /\ IsPrefix(logger.errors, logger'.errors)
    /\ IsPrefix(logger.suppliers_processed, logger'.suppliers_processed)

\* C31: after any sequence of logging operations the lists of the run log
\* have only grown, no entry removed or changed, and each summary counter
\* equals the length of its list: updated, no change, not found, duplicates,
\* flagged and errors.
C31_RunLogInvariant == []CountersMatchLists /\ [][ListsOnlyGrow]_vars

\* a log with an entry in each of its lists
C31_Witness ==
    /\ logger.updates # <<>>
    /\ logger.no_changes # <<>>
    /\ logger.not_found # <<>>
    /\ logger.duplicates # <<>>
    /\ logger.flagged # <<>>
    /\ logger.errors # <<>>

RECURSIVE SuccessfulWrites(_)
\* the successful counts of the batches of the first k passes, added up
SuccessfulWrites(k) ==
    IF k = 0 THEN 0 ELSE passes[k].result.successful + SuccessfulWrites(k - 1)

\* C32: an entry is appended to the updates list of the run log, and the
\* updated counter incremented, only for an inventory write that was sent and
\* succeeded: the counter equals the sum of the successful counts of the
\* batches, is 0 in a dry run and leaves out the items whose write failed.
C32_UpdatedCountsWrites ==
    /\ Len(logger.updates) = SuccessfulWrites(Len(passes))
    /\ logger.summary.updated_in_shopify = SuccessfulWrites(Len(passes))
    /\ args.dry_run => logger.summary.updated_in_shopify = 0

\* the integers nearest to (old - new) * 100 / old: one, or on a tie the
\* results of rounding half up and of rounding half to even
RoundedDropPercent(old_qty, new_qty) ==
    LET n == (old_qty - new_qty) * 100
        q == n \div old_qty
        r == n % old_qty
    IN  IF 2 * r < old_qty THEN {q}
        ELSE IF 2 * r > old_qty THEN {q + 1}
        ELSE {q + 1, IF q % 2 = 0 THEN q ELSE q + 1}

\* C33: the percentage carried in a quantity-drop flag reason equals
\* (old - new) * 100 / old rounded to the nearest integer, for every flagged
\* pair (old, new); old = 8, new = 1 reports 88.
C33_ReasonCarriesRoundedPercent ==
    (/\ ccall.op = "should_flag_update"
     /\ ccall.result.kind = "quantity_drop"
     /\ ccall.old_qty > ccall.new_qty)
    => /\ ccall.result.percent \in RoundedDropPercent(ccall.old_qty, ccall.new_qty)
       /\ (ccall.old_qty = 8 /\ ccall.new_qty = 1) => ccall.result.percent = 88

\* the pairs (old, new) of the matched pairs given to process_updates
GivenPairs ==
    [i \in 1..Len(ccall.matched_products) |->
        <<ccall.matched_products[i].shopify_variant.inventory_quantity,
          ccall.matched_products[i].supplier_product.quantity>>]

\* the pairs (old, new) of a list of its result
PairsOf(updates) ==
    [i \in 1..Len(updates) |-> <<updates[i].old_quantity, updates[i].new_quantity>>]

\* how often a pair occurs in a list of pairs
Occurrences(pairs, pair) == Len(SelectSeq(pairs, LAMBDA x : x = pair))

\* C34: process_updates partitions the matched pairs: every pair lands in
\* exactly one of safe, flagged and no_change; a pair is in no_change iff its
\* catalog quantity equals the supplier quantity, and should_flag_update is
\* never invoked for such a pair; total_matched of the summary equals the sum
\* of the three lengths and the number of matched pairs.
C34_ProcessPartitions ==
    ccall.op \in {"process_updates", "get_summary"} =>
        LET r == ccall.result
        IN  /\ Len(r.safe_updates) + Len(r.flagged_updates) + Len(r.no_change)
                  = Len(ccall.matched_products)
            /\ \A i \in 1..Len(GivenPairs) :
                   Occurrences(PairsOf(r.safe_updates), GivenPairs[i])
                   + Occurrences(PairsOf(r.flagged_updates), GivenPairs[i])
                   + Occurrences(PairsOf(r.no_change), GivenPairs[i])
                     = Occurrences(GivenPairs, GivenPairs[i])
            /\ PairsOf(r.no_change) = SelectSeq(GivenPairs, LAMBDA x : x[1] = x[2])
            /\ \A i \in 1..Len(r.safe_updates) :
                   r.safe_updates[i].old_quantity # r.safe_updates[i].new_quantity
            /\ \A i \in 1..Len(r.flagged_updates) :
                   r.flagged_updates[i].old_quantity # r.flagged_updates[i].new_quantity
            /\ ccall.calls = SelectSeq(GivenPairs, LAMBDA x : x[1] # x[2])
            /\ ccall.op = "get_summary" =>
                   /\ ccall.summary.total_matched = Len(ccall.matched_products)
                   /\ ccall.summary.total_matched
                         = ccall.summary.safe_updates + ccall.summary.flagged_updates
                           + ccall.summary.no_change

\* three matched pairs, one safe, one flagged, one without change
C34_Witness ==
    /\ ccall.op = "get_summary"
    /\ Len(ccall.result.safe_updates) = 1
    /\ Len(ccall.result.flagged_updates) = 1
    /\ Len(ccall.result.no_change) = 1

RECURSIVE DuplicateOutcomes(_)
\* the supplier records of the first k passes whose match outcome was duplicate
DuplicateOutcomes(k) ==
    IF k = 0 THEN 0
    ELSE Len(passes[k].match_results.duplicates) + DuplicateOutcomes(k - 1)

\* the run is over and no supplier pass raised
RunEndedWithoutRaise ==
    /\ pc = "exited"
    /\ saved
    /\ passes # <<>>
    /\ \A k \in 1..Len(passes) : passes[k].status = "done"

\* C35: at the end of every run in which no supplier pass raised the summary
\* satisfies matched = updated + no change + flagged, and total supplier
\* products = matched + not found + the number of supplier records whose
\* match outcome was duplicate.
C35_AccountingIdentity ==
    RunEndedWithoutRaise =>
        /\ logger.summary.matched_products
              = logger.summary.updated_in_shopify + logger.summary.no_change
                + logger.summary.flagged_for_review
        /\ logger.summary.total_supplier_products
              = logger.summary.matched_products + logger.summary.not_found_in_shopify
                + DuplicateOutcomes(Len(passes))

\* a run of two passes that ended with something in every counter
C35_Witness ==
    /\ RunEndedWithoutRaise
    /\ Len(passes) = 2
    /\ logger.summary.updated_in_shopify > 0
    /\ logger.summary.no_change > 0
    /\ logger.summary.flagged_for_review > 0
    /\ logger.summary.not_found_in_shopify > 0
    /\ logger.summary.matched_products > 2

\* C36: within the pass of one supplier each catalog variant (inventory
\* item) receives at most one platform write, for every batch of supplier
\* records, those included in which two records resolve to the same variant
\* (one by EAN and one by SKU, or two records with the same identifier).
C36_OneWritePerVariant ==
    \A k \in 1..Len(passes) :
        LET w == PassWrites(k)
        IN  \A i \in 1..Len(w) : \A j \in 1..Len(w) :
                w[i].inventory_item_id = w[j].inventory_item_id => i = j

-----------------------------------------------------------------------------
(* Properties of the request routine.  In client, consumed counts the
   attempts that ended in the except clause, exhausted tells that the
   rate-limit loop of some attempt of the call ran out, only_failures that
   every response of the call so far that was not a success was a network
   error or a 5xx, sleeps lists the waits of the except clause, and gap is
   the time between the last two HTTP requests. *)

\* C15: a 429 response never consumes a transient-retry attempt: the
\* attempt counter moves only when an attempt ends in the except clause;
\* every HTTP request of a call carries the call's method, endpoint and
\* body; and a call answered by k 429s (k below the ceiling of 20) and then
\* a success returns that success in its first attempt, after k + 1
\* requests and no backoff wait.
C15_RateLimitKeepsAttempts ==
    /\ client.consumed = IF client.pc = "raised" THEN max_retries ELSE client.attempt
    /\ client.requests > 0 => client.sent = client.request
    /\ (client.pc = "request" /\ ~client.exhausted) =>
          client.requests >= client.consumed + client.rate_limit_attempt
    /\ (client.pc = "returned" /\ client.consumed = 0) =>
          /\ client.attempt = 0
          /\ client.rate_limit_attempt < max_rate_limit_attempts
          /\ client.requests = client.rate_limit_attempt + 1
          /\ client.sleeps = <<>>
          /\ client.result \in {Decoded(r) : r \in {x \in Responses : x.status = 200}}

\* nineteen 429 responses and then a success: the call returns it in its
\* first attempt
C15_Witness ==
    /\ client.pc = "returned"
    /\ client.rate_limit_attempt = max_rate_limit_attempts - 1
    /\ client.requests = max_rate_limit_attempts
    /\ client.attempt = 0
    /\ client.sent = client.request

\* C16: when all 20 turns of the rate-limit loop of a request are answered
\* 429 the call fails terminally: the error is raised to the caller and no
\* further HTTP request is sent for the call.
C16_CeilingIsTerminal ==
    client.exhausted => client.pc = "raised"

\* C17: the except clause waits retry_delay * 2^k after attempt k and
\* starts the next attempt; a call whose every response is a network error
\* or a 5xx sends exactly max_retries requests and then raises; a call
\* raises only when all max_retries attempts have failed; and a success
\* returns at once, the successful request being the last one sent.
C17_TransientRetry ==
    /\ Len(client.sleeps) = client.attempt
    /\ \A k \in 0..(Len(client.sleeps) - 1) :
          client.sleeps[k + 1] = retry_delay * 2^k
    /\ client.pc = "raised" => client.consumed = max_retries
    /\ client.only_failures =>
          /\ client.pc = "raised" => client.requests = max_retries
          /\ client.pc = "returned" => client.requests = client.consumed + 1
          /\ client.pc \in {"attempt", "request"} => client.requests = client.consumed

\* a call met a network error or a 5xx on each of its ten attempts, waited
\* nine times and raised
C17_Witness ==
    /\ client.pc = "raised"
    /\ client.only_failures
    /\ client.requests = max_retries
    /\ Len(client.sleeps) = max_retries - 1
    /\ client.sleeps[max_retries - 1] = retry_delay * 2^(max_retries - 2)

\* C18: between any two consecutive HTTP requests of the client at least
\* the minimum interval 1 / requests_per_second goes by, whatever the retry
\* state.
C18_Pacing ==
    client.gap >= MinInterval

\* a call of the request routine is under way
CallUnderWay == client.pc \in {"attempt", "request"}

\* the call has returned a decoded response or raised
CallEnded == client.pc \in {"returned", "raised"}

\* C37: every call of the request routine terminates for every sequence of
\* server responses: it returns a decoded response or raises, after sending at
\* most max_retries * 20 = 200 HTTP requests: at most 20 in each of the
\* max_retries attempts.
C37_RequestTerminates ==
    /\ [](client.requests <= max_retries * max_rate_limit_attempts)
    /\ [](client.requests
            <= max_rate_limit_attempts * client.attempt + client.rate_limit_attempt + 1)
    /\ [](client.pc = "returned" => client.result # NoResult)
    /\ CallUnderWay ~> CallEnded

\* a call that sent 200 requests, all answered 429, and raised
C37_Witness ==
    /\ client.pc = "raised"
    /\ client.requests = max_retries * max_rate_limit_attempts
    /\ client.exhausted

====
